---- MODULE Spec2Model ----
(***************************************************************************)
(* pam_pico: the pico-continuous authentication daemon.                    *)
(*                                                                         *)
(* The module models the session registry (ProcessStore), the per-session  *)
(* AuthThread, the Rendezvous-Point Service that carries a session, and    *)
(* the D-Bus request/reply pairing of StartAuth and CompleteAuth.          *)
(*                                                                         *)
(* The handshake state machine (libpico FsmService) is an external         *)
(* library: every call the service makes into it answers with a            *)
(* nondeterministically chosen script of the callbacks it was given.       *)
(***************************************************************************)
EXTENDS Integers, Sequences, FiniteSets, TLC

\* ------------------------------------------------------------------------
\* Program constants
\* ------------------------------------------------------------------------
MAX_SIMULTANEOUS_AUTHS == 16

AUTHTHREADSTATE_INVALID == 0
AUTHTHREADSTATE_STARTED == 1
AUTHTHREADSTATE_COMPLETED == 2
AUTHTHREADSTATE_CONTINUING == 3
AUTHTHREADSTATE_HARVESTABLE == 4

BEACONTHREADSTATE_INVALID == -1
BEACONTHREADSTATE_STARTED == 0
BEACONTHREADSTATE_COMPLETED == 1
BEACONTHREADSTATE_HARVESTABLE == 2

\* ------------------------------------------------------------------------
\* Bounds of the exploration
\* ------------------------------------------------------------------------
MaxStarts == 2          \* StartAuth calls in a run of the daemon
MaxCompletes == 2       \* CompleteAuth calls in a run of the daemon
MaxFuel == 3            \* steps in a run of the daemon with MaxStarts sessions
MaxSoloFuel == 4        \* steps in a run of the daemon with one session
MaxStoreOps == 2        \* timeout, transport and remove steps of a registry run
MaxStoreHarvests == 1   \* processstore_harvest calls of a registry run
MaxStoreStarts == 18    \* StartAuth calls of a registry run

\* ------------------------------------------------------------------------
\* State
\* ------------------------------------------------------------------------
VARIABLES
    store,      \* the ProcessStore: first, items[], nextAvailable
    calls,      \* D-Bus method calls received, by invocation id: the kind,
                \* the handle, the session met, whether the reply was
                \* put off, and what the handler returned
    sent,       \* D-Bus replies emitted, in order
    locks,      \* session ids for which the lock command was run, in order
    daemon,     \* "running", or "crashed" after undefined behaviour
    nsess,      \* number of AuthThread objects created so far
    quota       \* what is left of the exploration bounds

vars == <<store, calls, sent, locks, daemon, nsess, quota>>

Handles == 0..(MAX_SIMULTANEOUS_AUTHS - 1)
AuthStates == AUTHTHREADSTATE_INVALID..AUTHTHREADSTATE_HARVESTABLE
NIL == -1               \* a NULL ProcessItem pointer
NoItem == [present |-> FALSE]

\* ------------------------------------------------------------------------
\* AuthThread and the Rendezvous-Point service it owns
\* ------------------------------------------------------------------------

\* the delay of the retry timer of servicervp_read_complete, in milliseconds
RETRY_DELAY == 1000

\* servicervp_new: the service object before servicervp_start.  retries
\* holds the delay of every retry timer that has been added to the main loop
\* and has not fired; retryid tells whether the id kept is not 0; finishes
\* counts the calls of the finish callback of the beacon thread.
servicervp_new ==
    [stopping |-> FALSE, reading |-> FALSE, writing |-> FALSE,
     connected |-> FALSE, connections |-> 0, msg |-> FALSE,
     timeoutid |-> FALSE, retryid |-> FALSE, beacons |-> FALSE,
     beacon |-> "NULL",
     beaconstate |-> BEACONTHREADSTATE_INVALID, running |-> 0,
     wallclocktimerid |-> FALSE, inflight |-> <<>>, retries |-> <<>>,
     finishes |-> 0]

\* authconfig_new: the default configuration (timeout in seconds, 0 is none)
authconfig_new ==
    [continuous |-> FALSE, beacons |-> FALSE, anyuser |-> FALSE, timeout |-> 0]

\* auththread_new followed by auththread_set_handle.  inv is the stored
\* object/invocation pair (0 is NULL); service is FALSE while the service
\* pointer is NULL.
auththread_new(sid, handle) ==
    [sid |-> sid, handle |-> handle, state |-> AUTHTHREADSTATE_INVALID,
     result |-> FALSE, username |-> "Nobody", password |-> "",
     inv |-> 0, authconfig |-> authconfig_new, timeoutid |-> FALSE,
     shared |-> "NULL", service |-> FALSE, svc |-> servicervp_new,
     stopped |-> 0, stoppedbusy |-> FALSE]

\* ------------------------------------------------------------------------
\* ProcessStore
\* ------------------------------------------------------------------------

processstore_new ==
    [first |-> NIL, items |-> [h \in Handles |-> NoItem], nextAvailable |-> 0]

Present(S, h) == h \in Handles /\ S.items[h].present

\* processstore_add that leaves nextAvailable where it was
HuntAvailable_stay(items, n) == n

\* the while loop that ends processstore_add
RECURSIVE HuntAvailable(_, _)
HuntAvailable(items, n) ==
    IF n < MAX_SIMULTANEOUS_AUTHS /\ items[n].present
    THEN HuntAvailable(items, n + 1) ELSE n

\* processstore_remove without the unlinking of the item from the list
processstore_remove_linked(S, handle) ==
    IF handle >= 0 /\ handle < MAX_SIMULTANEOUS_AUTHS /\ S.items[handle].present
    THEN [S EXCEPT !.items[handle] = NoItem,
                   !.nextAvailable = IF handle < @ THEN handle ELSE @]
    ELSE S

\* processstore_remove
processstore_remove(S, handle) ==
    IF handle >= 0 /\ handle < MAX_SIMULTANEOUS_AUTHS /\ S.items[handle].present
    THEN LET it == S.items[handle]
             first1 == IF S.first = handle THEN it.next ELSE S.first
             items1 == IF it.next # NIL
                       THEN [S.items EXCEPT ![it.next].prev = it.prev]
                       ELSE S.items
             items2 == IF it.prev # NIL
                       THEN [items1 EXCEPT ![it.prev].next = it.next]
                       ELSE items1
         IN [first |-> first1,
             items |-> [items2 EXCEPT ![handle] = NoItem],
             nextAvailable |-> IF handle < S.nextAvailable THEN handle
                               ELSE S.nextAvailable]
    ELSE S

\* a walk of the list that removes nothing
HarvestFrom_keep(S, item) == S

\* the walk of processstore_harvest from one list item onwards
RECURSIVE HarvestFrom(_, _)
HarvestFrom(S, item) ==
    IF item = NIL THEN S
    ELSE LET next == S.items[item].next
             a == S.items[item].auththread
         IN IF a.state = AUTHTHREADSTATE_HARVESTABLE
            THEN HarvestFrom(processstore_remove(S, a.handle), next)
            ELSE HarvestFrom(S, next)

processstore_harvest(S) == HarvestFrom(S, S.first)

\* processstore_add after its call of processstore_harvest: the store
\* afterwards and the handle returned
AddItem(S, sid) ==
    LET handle == S.nextAvailable
    IN IF handle < MAX_SIMULTANEOUS_AUTHS
       THEN LET item == [present |-> TRUE, next |-> S.first, prev |-> NIL,
                         auththread |-> auththread_new(sid, handle),
                         owner |-> "NULL"]
                items1 == IF S.first # NIL
                          THEN [S.items EXCEPT ![S.first].prev = handle]
                          ELSE S.items
                items2 == [items1 EXCEPT ![handle] = item]
            IN [store |-> [first |-> handle, items |-> items2,
                           nextAvailable |-> HuntAvailable(items2, S.nextAvailable)],
                handle |-> handle]
       ELSE [store |-> S, handle |-> -1]

\* processstore_add without its call of processstore_harvest
processstore_add_unharvested(S0, sid) == AddItem(S0, sid)

\* processstore_add: the store afterwards and the handle returned
processstore_add(S0, sid) == AddItem(processstore_harvest(S0), sid)

\* processstore_get_auththread: FALSE stands for NULL
HasAuthThread(S, handle) ==
    handle >= 0 /\ handle < MAX_SIMULTANEOUS_AUTHS /\ S.items[handle].present

\* the live list, walked from first along next for as long as the items
\* are there
RECURSIVE ListFrom(_, _, _)
ListFrom(S, item, fuel) ==
    IF item = NIL \/ fuel = 0 THEN <<>>
    ELSE IF ~S.items[item].present THEN <<item>>
    ELSE <<item>> \o ListFrom(S, S.items[item].next, fuel - 1)

LiveList(S) == ListFrom(S, S.first, MAX_SIMULTANEOUS_AUTHS + 1)

\* ------------------------------------------------------------------------
\* The world a handler runs in.  W carries the store, what the daemon has
\* emitted, and the answers the environment gives during this handler:
\* W.ub is the outcome of undefined behaviour, W.oracle the scripts of
\* callbacks the handshake state machine answers its next calls with.
\* Every step of a handler is an operator from worlds to worlds.
\* ------------------------------------------------------------------------
AT(W, h) == W.store.items[h].auththread
PutAT(W, h, a) == [W EXCEPT !.store.items[h].auththread = a]
SV(W, h) == W.store.items[h].auththread.svc
PutSV(W, h, sv) == [W EXCEPT !.store.items[h].auththread.svc = sv]

Replied(sentlog, inv) == \E i \in 1..Len(sentlog) : sentlog[i].inv = inv

\* g_dbus_method_invocation_return_value, reached through the generated
\* pico_uk_ac_cam_cl_pico_interface_complete_* functions.  Returning a value
\* releases the invocation; returning a value on a released invocation is
\* a use after free, whose outcome is W.ub.
Reply(W, r) ==
    IF W.daemon # "running" THEN W
    ELSE IF Replied(W.sent, r.inv)
    THEN CASE W.ub = "sent" -> [W EXCEPT !.sent = Append(@, r), !.ubhit = TRUE]
           [] W.ub = "dropped" -> [W EXCEPT !.ubhit = TRUE]
           [] OTHER -> [W EXCEPT !.daemon = "crashed", !.ubhit = TRUE]
    ELSE [W EXCEPT !.sent = Append(@, r)]

StartReply(inv, sid, handle, code, success) ==
    [inv |-> inv, kind |-> "start", sid |-> sid, handle |-> handle,
     code |-> code, user |-> "", token |-> "", success |-> success]

CompleteReply(inv, sid, user, token, success) ==
    [inv |-> inv, kind |-> "complete", sid |-> sid, handle |-> -1,
     code |-> "", user |-> user, token |-> token, success |-> success]

\* lock: runs the lock command for the session's user
lock(W, h) ==
    IF W.daemon # "running" THEN W
    ELSE [W EXCEPT !.locks = Append(@, AT(W, h).sid)]

\* auththread_complete_auth_reply that always reports a failure
auththread_complete_auth_reply_failed(W, h, success) ==
    IF AT(W, h).inv # 0
    THEN Reply(PutAT(W, h, [AT(W, h) EXCEPT !.inv = 0]),
               CompleteReply(AT(W, h).inv, AT(W, h).sid, AT(W, h).username,
                             AT(W, h).password, FALSE))
    ELSE W

\* auththread_complete_auth_reply
auththread_complete_auth_reply(W, h, success) ==
    IF AT(W, h).inv # 0
    THEN Reply(PutAT(W, h, [AT(W, h) EXCEPT !.inv = 0]),
               CompleteReply(AT(W, h).inv, AT(W, h).sid, AT(W, h).username,
                             AT(W, h).password, success))
    ELSE W

\* g_source_remove of the session's time limit, where one is set
RemoveTimeout(W, h) == PutAT(W, h, [AT(W, h) EXCEPT !.timeoutid = FALSE])

\* the assignment auththread->state = state
SetState(W, h, state) == PutAT(W, h, [AT(W, h) EXCEPT !.state = state])

\* authhtread_service_update without the move to continuous mode
ContinueIfContinuous_never(W, h) == W

\* the end of the AUTHENTICATED case of authhtread_service_update
ContinueIfContinuous(W, h) ==
    IF AT(W, h).authconfig.continuous
    THEN SetState(W, h, AUTHTHREADSTATE_CONTINUING) ELSE W

\* the end of the FIN and ERROR cases of authhtread_service_update
LockIfResult(W, h) == IF AT(W, h).result THEN lock(W, h) ELSE W

\* authhtread_service_update
authhtread_service_update(W, h, state) ==
    CASE state = "START" -> RemoveTimeout(W, h)
      [] state = "AUTHENTICATED" ->
           ContinueIfContinuous(
               auththread_complete_auth_reply(
                   PutAT(W, h, [AT(W, h) EXCEPT !.result = TRUE,
                                  !.state = AUTHTHREADSTATE_COMPLETED,
                                  !.password = "token"]),
                   h, TRUE),
               h)
      [] state = "AUTHFAILED" ->
           auththread_complete_auth_reply(
               PutAT(W, h, [AT(W, h) EXCEPT !.result = FALSE,
                              !.state = AUTHTHREADSTATE_COMPLETED]),
               h, FALSE)
      [] state \in {"FIN", "ERROR"} ->
           LockIfResult(auththread_complete_auth_reply(W, h, FALSE), h)
      [] OTHER -> W

\* history: the number of times the stop callback of the session has run,
\* and whether it ever ran while a message was in flight, a connection
\* was counted, a beacon sender was running or the beacon thread was neither
\* Invalid nor Harvestable
CountStopped(W, h) ==
    PutAT(W, h, [AT(W, h) EXCEPT
            !.stopped = @ + 1,
            !.stoppedbusy = \/ @
                            \/ SV(W, h).inflight # <<>>
                            \/ SV(W, h).connections # 0
                            \/ SV(W, h).running # 0
                            \/ SV(W, h).beaconstate \notin
                                  {BEACONTHREADSTATE_HARVESTABLE,
                                   BEACONTHREADSTATE_INVALID}])

\* the start of auththread_service_stopped
LockIfContinuous(W, h) ==
    IF AT(W, h).authconfig.continuous THEN lock(W, h) ELSE W

\* auththread_service_stopped
auththread_service_stopped(W, h) ==
    SetState(
        auththread_complete_auth_reply(
            RemoveTimeout(LockIfContinuous(CountStopped(W, h), h), h), h, FALSE),
        h, AUTHTHREADSTATE_HARVESTABLE)

\* the end of servicervp_stop_check
ClearStopping(W, h) == PutSV(W, h, [SV(W, h) EXCEPT !.stopping = FALSE])

\* servicervp_stop_check that does not look at the number of connections
servicervp_stop_check_flags(W, h) ==
    IF SV(W, h).stopping /\ ~SV(W, h).reading /\ ~SV(W, h).writing
       /\ SV(W, h).beaconstate \in {BEACONTHREADSTATE_HARVESTABLE,
                                    BEACONTHREADSTATE_INVALID}
    THEN ClearStopping(
             auththread_service_stopped(
                 PutSV(W, h, [SV(W, h) EXCEPT !.timeoutid = FALSE]), h),
             h)
    ELSE W

\* servicervp_stop_check
servicervp_stop_check(W, h) ==
    IF SV(W, h).stopping /\ ~SV(W, h).reading /\ ~SV(W, h).writing
       /\ SV(W, h).connections = 0
       /\ SV(W, h).beaconstate \in {BEACONTHREADSTATE_HARVESTABLE,
                                    BEACONTHREADSTATE_INVALID}
    THEN ClearStopping(
             auththread_service_stopped(
                 PutSV(W, h, [SV(W, h) EXCEPT !.timeoutid = FALSE]), h),
             h)
    ELSE W

\* soup_session_queue_message: one more message in flight; it becomes the
\* message servicervp->msg points to
QueueMessage(sv, kind) ==
    [sv EXCEPT !.msg = TRUE,
               !.inflight = Append([i \in 1..Len(@) |-> [@[i] EXCEPT !.cur = FALSE]],
                                   [kind |-> kind, cur |-> TRUE, status |-> "none"])]

\* soup_session_cancel_message on servicervp->msg: the completion callback
\* runs later, from the main loop, with the given status
CancelMessage(sv, status) ==
    [sv EXCEPT !.inflight = [i \in 1..Len(@) |->
        IF @[i].cur /\ @[i].status = "none"
        THEN [@[i] EXCEPT !.status = status] ELSE @[i]]]

\* servicervp_wallclock_stop
servicervp_wallclock_stop(W, h) ==
    PutSV(W, h, [SV(W, h) EXCEPT !.wallclocktimerid = FALSE])

\* servicervp_get (with servicervp_wallclock_start)
servicervp_get(W, h) ==
    IF ~SV(W, h).reading /\ ~SV(W, h).writing
    THEN PutSV(W, h, [QueueMessage(SV(W, h), "GET") EXCEPT
                        !.reading = TRUE, !.connections = @ + 1,
                        !.wallclocktimerid = TRUE])
    ELSE W

\* servicervp_post (with servicervp_wallclock_start)
servicervp_post(W, h) ==
    IF ~SV(W, h).reading /\ ~SV(W, h).writing
    THEN PutSV(W, h, [QueueMessage(SV(W, h), "POST") EXCEPT
                        !.writing = TRUE, !.connections = @ + 1,
                        !.wallclocktimerid = TRUE])
    ELSE W

\* servicervp_beaconthread_finish, the finish callback of the beacon thread
servicervp_beaconthread_finish(W, h) ==
    servicervp_stop_check(PutSV(W, h, [SV(W, h) EXCEPT !.finishes = @ + 1]), h)

\* beaconthread_stop
beaconthread_stop(W, h) ==
    IF SV(W, h).running = 0
    THEN servicervp_beaconthread_finish(
             PutSV(W, h, [SV(W, h) EXCEPT
                            !.beaconstate = BEACONTHREADSTATE_HARVESTABLE]), h)
    ELSE PutSV(W, h, [SV(W, h) EXCEPT !.beaconstate = BEACONTHREADSTATE_COMPLETED])

RECURSIVE FsmCall(_, _)
RECURSIVE ApplyScript(_, _, _)

\* servicervp_stop: the beacon thread is stopped if it is running
StopBeacons(W, h) ==
    IF SV(W, h).beaconstate > BEACONTHREADSTATE_INVALID
       /\ SV(W, h).beaconstate < BEACONTHREADSTATE_HARVESTABLE
    THEN beaconthread_stop(W, h) ELSE W

\* servicervp_stop: a read in flight is cancelled
StopReading(W, h) ==
    IF SV(W, h).msg /\ SV(W, h).reading
    THEN PutSV(W, h, [CancelMessage(SV(W, h), "CANCELLED") EXCEPT
                        !.connected = FALSE])
    ELSE W

\* servicervp_stop
servicervp_stop(W, h) ==
    IF SV(W, h).stopping THEN W
    ELSE servicervp_stop_check(
             servicervp_wallclock_stop(
                 StopReading(
                     StopBeacons(
                         FsmCall(PutSV(W, h, [SV(W, h) EXCEPT !.stopping = TRUE]), h),
                         h),
                     h),
                 h),
             h)

\* servicervp_error: the message in flight is cancelled
ErrorCancel(W, h) ==
    IF SV(W, h).msg
    THEN PutSV(W, h, [CancelMessage(SV(W, h), "CANCELLED") EXCEPT
                        !.connected = FALSE])
    ELSE W

\* servicervp_error
servicervp_error(W, h) ==
    servicervp_stop(servicervp_wallclock_stop(ErrorCancel(W, h), h), h)

\* servicervp_disconnect: a read in flight is cancelled
DisconnectCancel(W, h) ==
    IF SV(W, h).msg /\ SV(W, h).reading
    THEN PutSV(W, h, CancelMessage(SV(W, h), "CANCELLED"))
    ELSE W

\* servicervp_disconnect: the channel is marked as closed
SetDisconnected(W, h) == PutSV(W, h, [SV(W, h) EXCEPT !.connected = FALSE])

\* servicervp_disconnect
servicervp_disconnect(W, h) ==
    FsmCall(SetDisconnected(servicervp_wallclock_stop(DisconnectCancel(W, h), h), h), h)

\* the eight callbacks servicervp_new hands to fsmservice_set_functions
Callback(W, h, cb) ==
    CASE cb.f = "write" -> servicervp_post(W, h)
      [] cb.f = "set_timeout" -> PutSV(W, h, [SV(W, h) EXCEPT !.timeoutid = TRUE])
      [] cb.f = "error" -> servicervp_error(W, h)
      [] cb.f = "listen" -> servicervp_get(W, h)
      [] cb.f = "disconnect" -> servicervp_disconnect(W, h)
      [] cb.f = "authenticated" ->
           IF cb.arg # "OK_CONTINUE" THEN servicervp_stop(W, h) ELSE W
      [] cb.f = "session_ended" -> servicervp_stop(W, h)
      [] cb.f = "status_updated" ->
           authhtread_service_update(W, h, cb.arg)
      [] OTHER -> W

ApplyScript(W, h, script) ==
    IF script = <<>> THEN W
    ELSE ApplyScript(Callback(W, h, Head(script)), h, Tail(script))

\* a call into the handshake state machine (fsmservice_start, _stop,
\* _connected, _read, _disconnected, _timeout): it answers with the next
\* script of the oracle
FsmCall(W, h) ==
    IF W.oracle = <<>> THEN W
    ELSE ApplyScript([W EXCEPT !.oracle = Tail(@)], h, Head(W.oracle))

\* ------------------------------------------------------------------------
\* Configuration
\* ------------------------------------------------------------------------

\* A JSON text: form is "empty" (NULL or ""), "bad" (does not deserialize)
\* or "ok"; d maps the keys present to their values.
Json(form, d) == [form |-> form, d |-> d]
NoKeys == [k \in {} |-> 0]

\* authconfig_read_json: the configuration afterwards and the result
authconfig_read_json(cfg, json) ==
    IF json.form = "empty" THEN [cfg |-> cfg, result |-> TRUE]
    ELSE IF json.form = "bad" THEN [cfg |-> cfg, result |-> FALSE]
    ELSE LET has(k) == k \in DOMAIN json.d
         IN [cfg |-> [continuous |-> IF has("continuous")
                                     THEN json.d["continuous"] # 0
                                     ELSE cfg.continuous,
                      beacons |-> IF has("beacons") THEN json.d["beacons"] # 0
                                  ELSE cfg.beacons,
                      anyuser |-> IF has("anyuser") THEN json.d["anyuser"] # 0
                                  ELSE cfg.anyuser,
                      timeout |-> IF has("timeout") THEN json.d["timeout"]
                                  ELSE cfg.timeout],
             result |-> TRUE]

\* authconfig_load_json: file.form is "absent" when fopen fails
authconfig_load_json(cfg, file) ==
    IF file.form = "absent" THEN [cfg |-> cfg, result |-> TRUE]
    ELSE authconfig_read_json(cfg, file)

\* auththread_config: the configuration afterwards and the result
auththread_config(cfg, file, parameters) ==
    LET anyuser_restore == cfg.anyuser
        loaded == authconfig_load_json(cfg, file)
        cfg1 == [loaded.cfg EXCEPT !.anyuser = anyuser_restore]
    IN IF loaded.result THEN authconfig_read_json(cfg1, parameters)
       ELSE [cfg |-> cfg1, result |-> FALSE]

\* ------------------------------------------------------------------------
\* AuthThread operations
\* ------------------------------------------------------------------------

\* service_stop on an AuthThread's service
service_stop(W, h) == servicervp_stop(W, h)

\* auththread_stop
auththread_stop(W, h) ==
    IF AT(W, h).state < AUTHTHREADSTATE_HARVESTABLE /\ AT(W, h).service
    THEN service_stop(W, h) ELSE W

\* auththread_ownerlost
auththread_ownerlost(W, h) ==
    IF AT(W, h).state < AUTHTHREADSTATE_COMPLETED /\ AT(W, h).service
    THEN service_stop(W, h) ELSE W

\* auththread_timeout: the service is stopped if there is one
StopService(W, h) == IF AT(W, h).service THEN service_stop(W, h) ELSE W

\* auththread_timeout as a timer that is left set
auththread_timeout_repeating(W, h) == StopService(W, h)

\* auththread_timeout
auththread_timeout(W, h) == StopService(RemoveTimeout(W, h), h)

\* servicervp_start: the beacon code is made and, where beacons are asked
\* for, the beacon thread is started on the ndev devices loaded
StartBeacons(W, h, ndev) ==
    IF SV(W, h).beacons
    THEN PutSV(W, h, [SV(W, h) EXCEPT !.beacon = "code",
                        !.beaconstate = BEACONTHREADSTATE_STARTED,
                        !.running = ndev])
    ELSE PutSV(W, h, [SV(W, h) EXCEPT !.beacon = "code"])

\* servicervp_start: ndev is the number of beacon targets loaded
servicervp_start(W, h, ndev) ==
    IF SV(W, h).stopping THEN W
    ELSE FsmCall(StartBeacons(servicervp_get(W, h), h, ndev), h)

\* the value auththread_setup returns: matching is the number of rows of
\* the user table that carry the requested username
SetupResult(W, h, matching) == AT(W, h).authconfig.anyuser \/ matching # 0

\* auththread_setup
auththread_setup(W, h, matching, ndev) ==
    IF SetupResult(W, h, matching) THEN servicervp_start(W, h, ndev) ELSE W

\* auththread_start_auth: the state is set and the service is created
NewService(W, h) ==
    PutAT(W, h, [AT(W, h) EXCEPT
            !.state = AUTHTHREADSTATE_STARTED,
            !.service = TRUE,
            !.svc = [servicervp_new EXCEPT !.beacons = AT(W, h).authconfig.beacons]])

\* auththread_start_auth: the result goes back to the caller of StartAuth
ReplyStartAuth(W, h, invocation, success) ==
    Reply(W, StartReply(invocation, AT(W, h).sid, AT(W, h).handle,
                        SV(W, h).beacon, success))

\* auththread_start_auth: the time limit is set
AddTimeout(W, h) ==
    IF AT(W, h).authconfig.timeout > 0
    THEN PutAT(W, h, [AT(W, h) EXCEPT !.timeoutid = TRUE])
    ELSE W

\* auththread_start_auth
auththread_start_auth(W, h, matching, ndev) ==
    AddTimeout(
        ReplyStartAuth(auththread_setup(NewService(W, h), h, matching, ndev),
                       h, AT(W, h).inv, SetupResult(W, h, matching)),
        h)

\* auththread_get_commitment: the commitment is a hash of the service
\* identity public key and stands for it; "NULL" when it cannot be computed
auththread_get_commitment(W, h) ==
    IF AT(W, h).state >= AUTHTHREADSTATE_STARTED THEN AT(W, h).shared ELSE "NULL"

\* the loop of processstore_stop_similar from one list item onwards
RECURSIVE StopSimilarFrom(_, _, _)
StopSimilarFrom(W, new, item) ==
    IF item = NIL THEN W
    ELSE StopSimilarFrom(
             IF item # new
                /\ AT(W, item).state = AUTHTHREADSTATE_CONTINUING
                /\ AT(W, item).username = AT(W, new).username
                /\ auththread_get_commitment(W, item) # "NULL"
                /\ auththread_get_commitment(W, item) = auththread_get_commitment(W, new)
             THEN auththread_stop(W, item) ELSE W,
             new, W.store.items[item].next)

\* processstore_stop_similar that stops nothing
processstore_stop_similar_none(W, new) == W

\* processstore_stop_similar
processstore_stop_similar(W, new) ==
    IF auththread_get_commitment(W, new) # "NULL"
    THEN StopSimilarFrom(W, new, W.store.first)
    ELSE W

\* start_auth after its call of auththread_config, whose outcome is conf
StartConfigured(W, handle, conf, invocation, username, in) ==
    IF ~conf.result
    THEN [W |-> PutAT(W, handle, [AT(W, handle) EXCEPT !.authconfig = conf.cfg]),
          handle |-> handle, result |-> FALSE]
    ELSE [W |-> processstore_stop_similar(
                    auththread_start_auth(
                        PutAT(W, handle, [AT(W, handle) EXCEPT
                                !.authconfig = conf.cfg, !.shared = in.key,
                                !.inv = invocation, !.username = username]),
                        handle, in.matching, in.ndev),
                    handle),
          handle |-> handle, result |-> TRUE]

\* start_auth after its call of processstore_add, whose outcome is added
StartAdded(W, added, invocation, username, in) ==
    IF added.handle < 0
    THEN [W |-> Reply([W EXCEPT !.store = added.store],
                      StartReply(invocation, 0, added.handle, "", FALSE)),
          handle |-> added.handle, result |-> FALSE]
    ELSE StartConfigured([W EXCEPT !.store = added.store], added.handle,
                         auththread_config(added.store.items[added.handle].auththread.authconfig,
                                           in.file, in.parameters),
                         invocation, username, in)

\* start_auth: the world afterwards, the handle and the value returned
start_auth(W, sid, invocation, username, in) ==
    StartAdded(W, processstore_add(W.store, sid), invocation, username, in)

\* processstore_set_owner
processstore_set_owner(W, handle, owner) ==
    IF handle >= 0 /\ handle < MAX_SIMULTANEOUS_AUTHS /\ W.store.items[handle].present
    THEN [W EXCEPT !.store.items[handle].owner = owner]
    ELSE W

\* complete_auth after its call of processstore_set_owner
CompleteOwned(W, invocation, handle) ==
    IF HasAuthThread(W.store, handle)
    THEN IF AT(W, handle).state >= AUTHTHREADSTATE_COMPLETED
         THEN [W |-> Reply(PutAT(W, handle, [AT(W, handle) EXCEPT !.inv = 0]),
                           CompleteReply(invocation, AT(W, handle).sid,
                                         AT(W, handle).username,
                                         AT(W, handle).password,
                                         AT(W, handle).result)),
               result |-> TRUE]
         ELSE [W |-> PutAT(W, handle, [AT(W, handle) EXCEPT !.inv = invocation]),
               result |-> TRUE]
    ELSE [W |-> W, result |-> TRUE]

\* complete_auth: the world afterwards and the value returned
complete_auth(W, invocation, handle, owner) ==
    IF handle >= 0
    THEN CompleteOwned(processstore_set_owner(W, handle, owner), invocation, handle)
    ELSE [W |-> Reply(W, CompleteReply(invocation, 0, "", "", FALSE)),
          result |-> FALSE]

\* the loop of processstore_owner_lost from one list item onwards
RECURSIVE OwnerLostFrom(_, _, _)
OwnerLostFrom(W, old_owner, item) ==
    IF item = NIL THEN W
    ELSE OwnerLostFrom(
             IF W.store.items[item].owner = old_owner
             THEN auththread_ownerlost(W, item) ELSE W,
             old_owner, W.store.items[item].next)

\* processstore_owner_lost
processstore_owner_lost(W, old_owner) == OwnerLostFrom(W, old_owner, W.store.first)

\* ------------------------------------------------------------------------
\* Transport, beacon and timer callbacks of the Rendezvous-Point service
\* ------------------------------------------------------------------------

RemoveAt(seq, i) == [j \in 1..(Len(seq) - 1) |-> IF j < i THEN seq[j] ELSE seq[j + 1]]

\* what read_complete and write_complete do first: the message leaves the
\* session and servicervp->msg is cleared
MessageDone(sv, i) ==
    [sv EXCEPT !.wallclocktimerid = FALSE,
               !.connections = @ - 1,
               !.msg = FALSE,
               !.inflight = [j \in 1..(Len(@) - 1) |->
                               [RemoveAt(@, i)[j] EXCEPT !.cur = FALSE]]]

\* servicervp_incoming_connect: beacons stop once a device has connected
ConnectedStopBeacons(W, h) ==
    IF SV(W, h).beacons THEN beaconthread_stop(W, h) ELSE W

\* servicervp_incoming_connect
servicervp_incoming_connect(W, h) ==
    IF SV(W, h).connected THEN W
    ELSE ConnectedStopBeacons(
             FsmCall(PutSV(W, h, [SV(W, h) EXCEPT !.connected = TRUE]), h), h)

\* servicervp_read_complete that adds a retry timer on every connection
\* failure, whether or not one is pending
ReadDone_unguarded(W, h, cur, status) ==
    CASE status \in {"OK_KEEPALIVE", "OK_SHORT"} -> servicervp_get(W, h)
      [] status = "OK_DATA" -> FsmCall(servicervp_incoming_connect(W, h), h)
      [] status = "IO_ERROR" ->
           IF cur THEN servicervp_get(W, h) ELSE servicervp_stop_check(W, h)
      [] status = "CANCELLED" -> servicervp_stop_check(W, h)
      [] OTHER ->
           PutSV(W, h, [SV(W, h) EXCEPT !.retryid = TRUE,
                          !.retries = Append(@, RETRY_DELAY)])

\* servicervp_read_complete once the message has left the session; cur
\* tells whether it was the message servicervp->msg pointed to
ReadDone(W, h, cur, status) ==
    CASE status \in {"OK_KEEPALIVE", "OK_SHORT"} -> servicervp_get(W, h)
      [] status = "OK_DATA" -> FsmCall(servicervp_incoming_connect(W, h), h)
      [] status = "IO_ERROR" ->
           IF cur THEN servicervp_get(W, h) ELSE servicervp_stop_check(W, h)
      [] status = "CANCELLED" -> servicervp_stop_check(W, h)
      [] OTHER ->
           IF ~SV(W, h).retryid
           THEN PutSV(W, h, [SV(W, h) EXCEPT !.retryid = TRUE,
                               !.retries = Append(@, RETRY_DELAY)])
           ELSE W

\* servicervp_read_complete for the i-th message in flight, which ends with
\* the given status
servicervp_read_complete(W, h, i, status) ==
    ReadDone(PutSV(W, h, [MessageDone(SV(W, h), i) EXCEPT !.reading = FALSE]),
             h, SV(W, h).inflight[i].cur, status)

\* servicervp_write_complete once the message has left the session
WriteDone(W, h, status) ==
    CASE status = "OK_DATA" ->
           IF SV(W, h).connected THEN servicervp_get(W, h) ELSE W
      [] status = "CANCELLED" -> servicervp_stop_check(W, h)
      [] OTHER -> servicervp_stop(W, h)

\* servicervp_write_complete
servicervp_write_complete(W, h, i, status) ==
    WriteDone(PutSV(W, h, [MessageDone(SV(W, h), i) EXCEPT !.writing = FALSE]),
              h, status)

\* servicervp_retry_connection once the timer id is cleared
RetryNow(W, h) ==
    IF ~SV(W, h).stopping /\ ~SV(W, h).msg
    THEN servicervp_get(W, h)
    ELSE servicervp_stop_check(W, h)

\* servicervp_retry_connection
servicervp_retry_connection(W, h) ==
    RetryNow(PutSV(W, h, [SV(W, h) EXCEPT !.retryid = FALSE,
                            !.retries = Tail(@)]), h)

\* servicervp_timeout: the timer the state machine asked for
servicervp_timeout(W, h) ==
    FsmCall(PutSV(W, h, [SV(W, h) EXCEPT !.timeoutid = FALSE]), h)

\* servicervp_wallclock_timeout, once the wall clock has run out
servicervp_wallclock_timeout(W, h) ==
    IF SV(W, h).msg
    THEN IF SV(W, h).reading
         THEN servicervp_get(
                  PutSV(W, h, [CancelMessage(SV(W, h), "IO_ERROR") EXCEPT
                          !.wallclocktimerid = FALSE,
                          !.reading = FALSE, !.msg = FALSE,
                          !.inflight = [j \in 1..Len(@) |->
                                          [@[j] EXCEPT !.cur = FALSE]]]), h)
         ELSE PutSV(W, h, [CancelMessage(SV(W, h), "IO_ERROR") EXCEPT
                             !.wallclocktimerid = FALSE])
    ELSE W

\* the end of beaconthread_finished
LastBeaconDone(W, h) ==
    IF SV(W, h).running = 0
    THEN servicervp_beaconthread_finish(
             PutSV(W, h, [SV(W, h) EXCEPT
                            !.beaconstate = BEACONTHREADSTATE_HARVESTABLE]), h)
    ELSE W

\* beaconthread_finished: one beacon sender has stopped
beaconthread_finished(W, h) ==
    LastBeaconDone(PutSV(W, h, [SV(W, h) EXCEPT !.running = @ - 1]), h)

\* ------------------------------------------------------------------------
\* Inputs of the environment
\* ------------------------------------------------------------------------
Owners == {"o1", "o2"}
UBOutcomes == {"sent", "dropped", "crash"}

Cb(f, arg) == [f |-> f, arg |-> arg]
Upd(state) == Cb("status_updated", state)

\* what the handshake state machine may answer one call with
Scripts ==
    { <<>>,
      <<Upd("START")>>,
      <<Cb("write", ""), Cb("set_timeout", "")>>,
      <<Cb("disconnect", "")>>,
      <<Upd("AUTHENTICATED"), Cb("authenticated", "OK_DONE")>>,
      <<Upd("AUTHENTICATED"), Cb("authenticated", "OK_CONTINUE"), Cb("listen", "")>>,
      <<Upd("AUTHFAILED"), Cb("authenticated", "REJECTED")>>,
      <<Upd("ERROR"), Cb("error", "")>>,
      <<Upd("FIN"), Cb("session_ended", "")>> }

\* the answers to the calls of one handler: to its only call, or nothing to
\* its first call and a script to its second
Oracles == { <<s>> : s \in Scripts } \cup { << <<>>, s >> : s \in Scripts }

\* what fsmservice_stop may answer with
StopOracles ==
    { <<s>> : s \in { <<>>, <<Cb("disconnect", "")>>,
                      <<Upd("FIN"), Cb("session_ended", "")>> } }

\* what fsmservice_timeout may answer with
TimeoutOracles == { <<s>> : s \in Scripts }

\* what fsmservice_start may answer with
StartOracles == { <<s>> : s \in { <<>>, <<Upd("START")>>, <<Upd("ERROR"), Cb("error", "")>> } }

JsonEmpty == Json("empty", NoKeys)
JsonBad == Json("bad", NoKeys)
FileAbsent == Json("absent", NoKeys)
JsonOf(key, value) == Json("ok", key :> value)

StartInput(file, parameters, matching, ndev) ==
    [file |-> file, parameters |-> parameters, matching |-> matching, ndev |-> ndev,
     key |-> "k1"]

\* the same input with the configuration directory holding another service
\* identity key pair
InDir(in, key) == [in EXCEPT !.key = key]

\* the configuration file, the caller's parameters, the number of rows of
\* users.txt for the requested user and the number of beacon targets
StartInputs ==
    { StartInput(FileAbsent, p, 1, 0) :
        p \in { JsonEmpty, JsonBad, JsonOf("continuous", 1), JsonOf("timeout", 1) } }
    \cup { StartInput(JsonBad, JsonEmpty, 1, 0),
           StartInput(FileAbsent, JsonEmpty, 0, 0),
           StartInput(FileAbsent, JsonOf("beacons", 1), 1, 1) }

\* the StartAuth calls explored: every input for one user, and a second user
StartRequests ==
    { [username |-> "alice", in |-> in] : in \in StartInputs }
    \cup { [username |-> "bob", in |-> StartInput(FileAbsent, JsonEmpty, 1, 0)],
           [username |-> "alice",
            in |-> InDir(StartInput(FileAbsent, JsonOf("continuous", 1), 1, 0), "k2")] }

\* a registry run: every session is started for a known user and with a
\* time limit, and the rendezvous point stays silent
StoreInput == StartInput(FileAbsent, JsonOf("timeout", 1), 1, 0)
StoreHandles == {0, 1, MAX_SIMULTANEOUS_AUTHS - 1}

ReadStatuses == {"OK_DATA", "OK_KEEPALIVE", "OK_SHORT", "IO_ERROR", "FAILED"}
WriteStatuses == {"OK_DATA", "FAILED"}

\* ------------------------------------------------------------------------
\* Steps
\* ------------------------------------------------------------------------
World(ub, oracle) ==
    [store |-> store, sent |-> sent, locks |-> locks, daemon |-> daemon,
     ub |-> ub, oracle |-> oracle, ubhit |-> FALSE]

\* the handler has run to its end, or the daemon has crashed in it
Commit(W) ==
    /\ store' = IF W.daemon = "crashed" THEN store ELSE W.store
    /\ sent' = W.sent
    /\ locks' = W.locks
    /\ daemon' = W.daemon

\* the outcomes of undefined behaviour are explored only where it happens
Outcome(ub, W) == ub = "sent" \/ W.ubhit

Live(h) == h \in Handles /\ store.items[h].present
Started(h) == Live(h) /\ store.items[h].auththread.service

TypeOK ==
    /\ daemon \in {"running", "crashed"}
    /\ store.nextAvailable \in 0..MAX_SIMULTANEOUS_AUTHS
    /\ nsess \in Nat

Init ==
    /\ store = processstore_new
    /\ calls = <<>>
    /\ sent = <<>>
    /\ locks = <<>>
    /\ daemon = "running"
    /\ nsess = 0
    /\ quota \in { [starts |-> MaxStarts, completes |-> MaxCompletes,
                     fuel |-> MaxFuel, ops |-> 0, harvests |-> 0],
                    [starts |-> 1, completes |-> MaxCompletes,
                     fuel |-> MaxSoloFuel, ops |-> 0, harvests |-> 0] }

InitStore ==
    /\ store = processstore_new
    /\ calls = <<>>
    /\ sent = <<>>
    /\ locks = <<>>
    /\ daemon = "running"
    /\ nsess = 0
    /\ quota = [starts |-> MaxStoreStarts, completes |-> 0, fuel |-> 0,
                ops |-> MaxStoreOps, harvests |-> MaxStoreHarvests]

\* the end of a StartAuth step: r is what start_auth returned, which the
\* handler hands back to the D-Bus skeleton
StartAuthDone(r, ub) ==
    /\ Outcome(ub, r.W)
    /\ Commit(r.W)
    /\ calls' = Append(calls, [kind |-> "start", handle |-> r.handle,
                               sid |-> IF r.handle >= 0 THEN nsess + 1 ELSE 0,
                               deferred |-> FALSE, result |-> r.result])
    /\ nsess' = IF r.handle >= 0 THEN nsess + 1 ELSE nsess

\* on_handle_start_auth: a StartAuth call arrives
StartAuthWith(username, in, oracle) ==
    /\ daemon = "running"
    /\ quota.starts > 0
    /\ \E ub \in UBOutcomes :
         StartAuthDone(start_auth(World(ub, oracle), nsess + 1, Len(calls) + 1,
                                  username, in), ub)
    /\ quota' = [quota EXCEPT !.starts = @ - 1,
                               !.fuel = IF @ > 0 THEN @ - 1 ELSE 0]

StartAuth ==
    /\ quota.fuel > 0
    /\ \E req \in StartRequests, oracle \in StartOracles :
         StartAuthWith(req.username, req.in, oracle)

\* the end of a CompleteAuth step: r is what complete_auth returned
CompleteAuthDone(r, handle, ub) ==
    /\ Outcome(ub, r.W)
    /\ Commit(r.W)
    /\ calls' = Append(calls, [kind |-> "complete", handle |-> handle,
                               sid |-> IF HasAuthThread(store, handle)
                                       THEN store.items[handle].auththread.sid
                                       ELSE 0,
                               deferred |->
                                   /\ HasAuthThread(store, handle)
                                   /\ store.items[handle].auththread.state
                                        < AUTHTHREADSTATE_COMPLETED,
                               result |-> r.result])

\* on_handle_complete_auth: a CompleteAuth call arrives
CompleteAuth ==
    /\ daemon = "running"
    /\ quota.completes > 0 /\ quota.fuel > 0
    /\ \E handle \in -1..MaxStarts, owner \in Owners, ub \in UBOutcomes :
         CompleteAuthDone(complete_auth(World(ub, <<>>), Len(calls) + 1, handle, owner),
                          handle, ub)
    /\ quota' = [quota EXCEPT !.completes = @ - 1, !.fuel = @ - 1]
    /\ nsess' = nsess

\* an event of the main loop other than a method call
Event(W, ub) ==
    /\ Outcome(ub, W)
    /\ Commit(W)
    /\ quota' = [quota EXCEPT !.fuel = @ - 1]
    /\ UNCHANGED <<calls, nsess>>

CanStep == daemon = "running" /\ quota.fuel > 0

\* signal_callback: NameOwnerChanged reports that an owner has gone
OwnerLost ==
    /\ CanStep
    /\ \E owner \in Owners, oracle \in StopOracles, ub \in UBOutcomes :
         Event(processstore_owner_lost(World(ub, oracle), owner), ub)

\* auththread_timeout: the session's time limit is reached
Timeout ==
    /\ CanStep
    /\ \E h \in Handles, oracle \in StopOracles, ub \in UBOutcomes :
         /\ Live(h) /\ store.items[h].auththread.timeoutid
         /\ Event(auththread_timeout(World(ub, oracle), h), ub)

\* servicervp_read_complete: a GET in flight ends
ReadComplete ==
    /\ CanStep
    /\ \E h \in Handles :
         /\ Started(h)
         /\ \E i \in 1..Len(store.items[h].auththread.svc.inflight) :
              LET m == store.items[h].auththread.svc.inflight[i]
              IN /\ m.kind = "GET"
                 /\ \E status \in (IF m.status = "none" THEN ReadStatuses
                                   ELSE {m.status}) :
                      \E oracle \in (IF status = "OK_DATA" THEN Oracles ELSE { <<>> }),
                         ub \in UBOutcomes :
                          Event(servicervp_read_complete(World(ub, oracle), h, i, status), ub)

\* servicervp_write_complete: a POST in flight ends
WriteComplete ==
    /\ CanStep
    /\ \E h \in Handles :
         /\ Started(h)
         /\ \E i \in 1..Len(store.items[h].auththread.svc.inflight) :
              LET m == store.items[h].auththread.svc.inflight[i]
              IN /\ m.kind = "POST"
                 /\ \E status \in (IF m.status = "none" THEN WriteStatuses
                                   ELSE {m.status}) :
                      \E oracle \in (IF status = "OK_DATA" THEN { <<>> } ELSE StopOracles),
                         ub \in UBOutcomes :
                          Event(servicervp_write_complete(World(ub, oracle), h, i, status), ub)

\* servicervp_retry_connection: the retry timer fires
RetryConnection ==
    /\ CanStep
    /\ \E h \in Handles, ub \in UBOutcomes :
         /\ Started(h) /\ store.items[h].auththread.svc.retries # <<>>
         /\ Event(servicervp_retry_connection(World(ub, <<>>), h), ub)

\* servicervp_timeout: the timer of the handshake state machine fires
ServiceTimeout ==
    /\ CanStep
    /\ \E h \in Handles, oracle \in TimeoutOracles, ub \in UBOutcomes :
         /\ Started(h) /\ store.items[h].auththread.svc.timeoutid
         /\ Event(servicervp_timeout(World(ub, oracle), h), ub)

\* servicervp_wallclock_timeout: the wall clock timer finds the time is up
WallclockTimeout ==
    /\ CanStep
    /\ \E h \in Handles, ub \in UBOutcomes :
         /\ Started(h) /\ store.items[h].auththread.svc.wallclocktimerid
         /\ Event(servicervp_wallclock_timeout(World(ub, <<>>), h), ub)

\* beaconthread_finished: a beacon sender that was asked to stop has stopped
BeaconFinished ==
    /\ CanStep
    /\ \E h \in Handles, ub \in UBOutcomes :
         /\ Started(h)
         /\ store.items[h].auththread.svc.running > 0
         /\ store.items[h].auththread.svc.beaconstate = BEACONTHREADSTATE_COMPLETED
         /\ Event(beaconthread_finished(World(ub, <<>>), h), ub)

\* a StartAuth call of a registry run
StoreStartAuth ==
    /\ quota.starts > 0 /\ quota.fuel = 0
    /\ StartAuthWith("alice", StoreInput, <<>>)

StoreStep(W, ub) ==
    /\ Outcome(ub, W)
    /\ Commit(W)
    /\ quota' = [quota EXCEPT !.ops = @ - 1]
    /\ UNCHANGED <<calls, nsess>>

\* auththread_timeout in a registry run
StoreTimeout ==
    /\ daemon = "running" /\ quota.ops > 0
    /\ \E h \in StoreHandles, ub \in UBOutcomes :
         /\ Live(h) /\ store.items[h].auththread.timeoutid
         /\ StoreStep(auththread_timeout(World(ub, <<>>), h), ub)

\* servicervp_read_complete in a registry run: a cancelled GET ends
StoreReadComplete ==
    /\ daemon = "running" /\ quota.ops > 0
    /\ \E h \in StoreHandles, ub \in UBOutcomes :
         /\ Started(h)
         /\ \E i \in 1..Len(store.items[h].auththread.svc.inflight) :
              /\ store.items[h].auththread.svc.inflight[i].status = "CANCELLED"
              /\ StoreStep(servicervp_read_complete(World(ub, <<>>), h, i, "CANCELLED"),
                           ub)

\* processstore_remove called on the registry
StoreRemove ==
    /\ daemon = "running" /\ quota.ops > 0
    /\ \E h \in StoreHandles :
         StoreStep([World("sent", <<>>) EXCEPT !.store = processstore_remove(store, h)],
                   "sent")

\* processstore_harvest called on the registry
StoreHarvest ==
    /\ daemon = "running" /\ quota.harvests > 0
    /\ Commit([World("sent", <<>>) EXCEPT !.store = processstore_harvest(store)])
    /\ quota' = [quota EXCEPT !.harvests = @ - 1]
    /\ UNCHANGED <<calls, nsess>>

Next ==
    \/ StartAuth
    \/ CompleteAuth
    \/ OwnerLost
    \/ Timeout
    \/ ReadComplete
    \/ WriteComplete
    \/ RetryConnection
    \/ ServiceTimeout
    \/ WallclockTimeout
    \/ BeaconFinished

Spec == Init /\ [][Next]_vars

NextStore ==
    \/ StoreStartAuth
    \/ StoreTimeout
    \/ StoreReadComplete
    \/ StoreRemove
    \/ StoreHarvest

SpecStore == InitStore /\ [][NextStore]_vars

\* ------------------------------------------------------------------------
\* Configuration runs: StartAuth calls over the configuration files and
\* caller parameters, with the rendezvous point silent.  The call record
\* keeps the input the call was made with.
\* ------------------------------------------------------------------------
MaxConfigStarts == 1    \* StartAuth calls of a configuration run

\* the dictionaries over the keys anyuser and continuous, each key absent
\* or an integer 0 or 1
ConfigDicts == UNION { [K -> {0, 1}] : K \in SUBSET {"anyuser", "continuous"} }

\* config.txt: absent, empty, not a JSON object, or a dictionary
ConfigFiles == {FileAbsent, JsonEmpty, JsonBad} \cup { Json("ok", d) : d \in ConfigDicts }

\* the parameters of StartAuth: empty, not a JSON object, or a dictionary
ConfigParameters == {JsonEmpty, JsonBad} \cup { Json("ok", d) : d \in ConfigDicts }

ConfigInputs ==
    { StartInput(f, p, 1, 0) : f \in ConfigFiles, p \in ConfigParameters }

InitConfig ==
    /\ store = processstore_new
    /\ calls = <<>>
    /\ sent = <<>>
    /\ locks = <<>>
    /\ daemon = "running"
    /\ nsess = 0
    /\ quota = [starts |-> MaxConfigStarts, completes |-> 0, fuel |-> 0,
                ops |-> 0, harvests |-> 0]

\* the end of a StartAuth step of a configuration run
ConfigStartAuthDone(r, in, ub) ==
    /\ Outcome(ub, r.W)
    /\ Commit(r.W)
    /\ calls' = Append(calls, [kind |-> "start", handle |-> r.handle,
                               sid |-> IF r.handle >= 0 THEN nsess + 1 ELSE 0,
                               deferred |-> FALSE, result |-> r.result,
                               in |-> in])
    /\ nsess' = IF r.handle >= 0 THEN nsess + 1 ELSE nsess

\* on_handle_start_auth in a configuration run
ConfigStartAuth ==
    /\ daemon = "running"
    /\ quota.starts > 0
    /\ \E in \in ConfigInputs, ub \in UBOutcomes :
         ConfigStartAuthDone(start_auth(World(ub, <<>>), nsess + 1, Len(calls) + 1,
                                        "alice", in), in, ub)
    /\ quota' = [quota EXCEPT !.starts = @ - 1]

NextConfig == ConfigStartAuth

SpecConfig == InitConfig /\ [][NextConfig]_vars

\* ------------------------------------------------------------------------
\* User table runs: StartAuth calls over the rows of users.txt, the
\* requested username and the caller's anyuser, followed by the handshake.
\* The call record keeps the table and the rows handed to service_start.
\* ------------------------------------------------------------------------
MaxUsersStarts == 1     \* StartAuth calls of a user table run
MaxUsersFuel == 2       \* steps after them in a user table run

\* the rows users.txt may hold: a username and the key paired for it
UserRows ==
    { [name |-> "alice", key |-> 1], [name |-> "bob", key |-> 2],
      [name |-> "bob", key |-> 3] }
UserTables == SUBSET UserRows
Usernames == {"alice", "bob"}
UsersParameters == { JsonEmpty, JsonOf("anyuser", 0), JsonOf("anyuser", 1) }

\* users_filter_by_name: the rows that carry the username
users_filter_by_name(users, username) == { row \in users : row.name = username }

\* auththread_setup: every row is handed to service_start
auththread_filtered_all(anyuser, users, username) == users

\* auththread_setup: the rows handed to service_start
auththread_filtered(anyuser, users, username) ==
    IF anyuser THEN users ELSE users_filter_by_name(users, username)

\* the input of a StartAuth call for username when users.txt holds users
UsersInput(users, username, parameters) ==
    StartInput(FileAbsent, parameters,
               Cardinality(users_filter_by_name(users, username)), 0)

InitUsers ==
    /\ store = processstore_new
    /\ calls = <<>>
    /\ sent = <<>>
    /\ locks = <<>>
    /\ daemon = "running"
    /\ nsess = 0
    /\ quota = [starts |-> MaxUsersStarts, completes |-> MaxCompletes,
                fuel |-> MaxUsersFuel, ops |-> 0, harvests |-> 0]

\* the end of a StartAuth step of a user table run; handed is the set of
\* rows service_start was called with, where it was called
UsersStartAuthDone(r, username, users, ub) ==
    /\ Outcome(ub, r.W)
    /\ Commit(r.W)
    /\ calls' = Append(calls,
          [kind |-> "start", handle |-> r.handle,
           sid |-> IF r.handle >= 0 THEN nsess + 1 ELSE 0,
           deferred |-> FALSE, result |-> r.result,
           username |-> username, users |-> users,
           started |-> r.handle >= 0 /\ SV(r.W, r.handle).beacon # "NULL",
           handed |-> IF r.handle >= 0
                      THEN auththread_filtered(
                               AT(r.W, r.handle).authconfig.anyuser, users, username)
                      ELSE {}])
    /\ nsess' = IF r.handle >= 0 THEN nsess + 1 ELSE nsess

\* on_handle_start_auth in a user table run
UsersStartAuth ==
    /\ daemon = "running"
    /\ quota.starts > 0
    /\ \E users \in UserTables, username \in Usernames,
          parameters \in UsersParameters, ub \in UBOutcomes :
         UsersStartAuthDone(
             start_auth(World(ub, <<>>), nsess + 1, Len(calls) + 1, username,
                        UsersInput(users, username, parameters)),
             username, users, ub)
    /\ quota' = [quota EXCEPT !.starts = @ - 1]

NextUsers ==
    \/ UsersStartAuth
    \/ CompleteAuth
    \/ ReadComplete

SpecUsers == InitUsers /\ [][NextUsers]_vars

\* ------------------------------------------------------------------------
\* Owner runs: the record of a StartAuth call keeps the bus name of its
\* caller, a NameOwnerChanged signal is recorded with the name that left
\* the bus, and the expiry of a session's time limit is recorded with the
\* session it expired for.
\* ------------------------------------------------------------------------
MaxOwnerStarts == 1     \* StartAuth calls of an owner run
MaxOwnerFuel == 3       \* steps after them in an owner run

InitOwner ==
    /\ store = processstore_new
    /\ calls = <<>>
    /\ sent = <<>>
    /\ locks = <<>>
    /\ daemon = "running"
    /\ nsess = 0
    /\ quota = [starts |-> MaxOwnerStarts, completes |-> MaxCompletes,
                fuel |-> MaxOwnerFuel, ops |-> 0, harvests |-> 0]

\* the StartAuth calls of an owner run: without and with a time limit
OwnerInputs ==
    { StartInput(FileAbsent, JsonEmpty, 1, 0),
      StartInput(FileAbsent, JsonOf("timeout", 1), 1, 0) }

\* the end of a StartAuth step of an owner run
OwnerStartAuthDone(r, owner, ub) ==
    /\ Outcome(ub, r.W)
    /\ Commit(r.W)
    /\ calls' = Append(calls, [kind |-> "start", handle |-> r.handle,
                               sid |-> IF r.handle >= 0 THEN nsess + 1 ELSE 0,
                               deferred |-> FALSE, result |-> r.result,
                               owner |-> owner])
    /\ nsess' = IF r.handle >= 0 THEN nsess + 1 ELSE nsess

\* on_handle_start_auth in an owner run: the call comes from owner
OwnerStartAuth ==
    /\ daemon = "running"
    /\ quota.starts > 0
    /\ \E owner \in Owners, in \in OwnerInputs, oracle \in StartOracles,
          ub \in UBOutcomes :
         OwnerStartAuthDone(
             start_auth(World(ub, oracle), nsess + 1, Len(calls) + 1, "alice", in),
             owner, ub)
    /\ quota' = [quota EXCEPT !.starts = @ - 1]

\* the end of a NameOwnerChanged step of an owner run
OwnerLostDone(W, owner, ub) ==
    /\ Outcome(ub, W)
    /\ Commit(W)
    /\ calls' = Append(calls, [kind |-> "ownerlost", handle |-> -1,
                               sid |-> 0, deferred |-> FALSE,
                               result |-> TRUE, owner |-> owner])

\* signal_callback in an owner run: owner has left the bus
OwnerLostSeen ==
    /\ CanStep
    /\ \E owner \in Owners, oracle \in StopOracles, ub \in UBOutcomes :
         OwnerLostDone(processstore_owner_lost(World(ub, oracle), owner), owner, ub)
    /\ quota' = [quota EXCEPT !.fuel = @ - 1]
    /\ nsess' = nsess

\* the end of a time limit step of an owner run
TimeoutDone(W, h, ub) ==
    /\ Outcome(ub, W)
    /\ Commit(W)
    /\ calls' = Append(calls, [kind |-> "timeout", handle |-> h,
                               sid |-> store.items[h].auththread.sid, deferred |-> FALSE,
                               result |-> FALSE, owner |-> "NULL"])

\* auththread_timeout in an owner run: the time limit of session h expires
TimeoutSeen ==
    /\ CanStep
    /\ \E h \in Handles, oracle \in StopOracles, ub \in UBOutcomes :
         /\ Live(h) /\ store.items[h].auththread.timeoutid
         /\ TimeoutDone(auththread_timeout(World(ub, oracle), h), h, ub)
    /\ quota' = [quota EXCEPT !.fuel = @ - 1]
    /\ nsess' = nsess

NextOwner ==
    \/ OwnerStartAuth
    \/ CompleteAuth
    \/ OwnerLostSeen
    \/ TimeoutSeen
    \/ ReadComplete

SpecOwner == InitOwner /\ [][NextOwner]_vars

\* ------------------------------------------------------------------------
\* Handshake runs: the state machine was told by service_set_continuous
\* whether the session is continuous, and the status it reports on a
\* successful handshake asks to continue exactly when it was told so.
\* ------------------------------------------------------------------------

MaxHandshakeFuel == 4

InitHandshake ==
    /\ store = processstore_new
    /\ calls = <<>>
    /\ sent = <<>>
    /\ locks = <<>>
    /\ daemon = "running"
    /\ nsess = 0
    /\ quota = [starts |-> MaxStarts, completes |-> MaxCompletes,
                fuel |-> MaxHandshakeFuel, ops |-> 0, harvests |-> 0]

\* the callbacks of the oracle agree with the continuous flag
FsmHonours(continuous, oracle) ==
    \A k \in 1..Len(oracle) : \A j \in 1..Len(oracle[k]) :
        oracle[k][j].f = "authenticated"
            => oracle[k][j].arg \in {"REJECTED",
                                     IF continuous THEN "OK_CONTINUE" ELSE "OK_DONE"}

\* what the state machine of a session may do on incoming data
HandshakeOracles(continuous) == { o \in Oracles : FsmHonours(continuous, o) }

\* servicervp_read_complete in a handshake run
HandshakeRead ==
    /\ CanStep
    /\ \E h \in Handles :
         /\ Started(h)
         /\ \E i \in 1..Len(store.items[h].auththread.svc.inflight) :
              LET m == store.items[h].auththread.svc.inflight[i]
              IN /\ m.kind = "GET"
                 /\ \E status \in (IF m.status = "none" THEN ReadStatuses
                                   ELSE {m.status}) :
                      \E oracle \in (IF status = "OK_DATA"
                                     THEN HandshakeOracles(
                                              store.items[h].auththread.authconfig.continuous)
                                     ELSE { <<>> }),
                         ub \in UBOutcomes :
                          Event(servicervp_read_complete(World(ub, oracle), h, i, status), ub)

NextHandshake ==
    \/ StartAuth
    \/ CompleteAuth
    \/ HandshakeRead

SpecHandshake == InitHandshake /\ [][NextHandshake]_vars

\* ------------------------------------------------------------------------
\* Bus runs: the daemon owns the name uk.ac.cam.cl.pico.service; the loss of
\* the name and the Exit method are recorded in calls.  daemon is "exited"
\* once g_main_loop_quit was called.
\* ------------------------------------------------------------------------

\* on_name_lost: writes a line to the log
on_name_lost(W) == W

\* the reply of pico_uk_ac_cam_cl_pico_interface_complete_exit
ExitReply(inv) ==
    [inv |-> inv, kind |-> "exit", sid |-> 0, handle |-> -1,
     code |-> "", user |-> "", token |-> "", success |-> TRUE]

\* g_main_loop_quit
g_main_loop_quit(W) ==
    IF W.daemon = "running" THEN [W EXCEPT !.daemon = "exited"] ELSE W

\* on_handle_exit: the loop is told to quit and the call is answered
on_handle_exit(W, invocation) == g_main_loop_quit(Reply(W, ExitReply(invocation)))

\* the end of a step of a bus run that is recorded as kind
BusDone(W, kind, ub) ==
    /\ Outcome(ub, W)
    /\ Commit(W)
    /\ calls' = Append(calls, [kind |-> kind, handle |-> -1, sid |-> 0,
                               deferred |-> FALSE, result |-> TRUE,
                               owner |-> "NULL"])
    /\ quota' = [quota EXCEPT !.fuel = @ - 1]
    /\ nsess' = nsess

\* the bus tells the daemon that it no longer owns its name
NameLost ==
    /\ CanStep
    /\ \E ub \in UBOutcomes : BusDone(on_name_lost(World(ub, <<>>)), "namelost", ub)

\* a client calls the Exit method
Exit ==
    /\ CanStep
    /\ \E ub \in UBOutcomes :
         BusDone(on_handle_exit(World(ub, <<>>), Len(calls) + 1), "exit", ub)

NextBus ==
    \/ OwnerStartAuth
    \/ CompleteAuth
    \/ ReadComplete
    \/ NameLost
    \/ Exit

SpecBus == InitOwner /\ [][NextBus]_vars

\* ------------------------------------------------------------------------
\* Channel runs: one session with a time limit, with and without beacons,
\* and every event of its Rendezvous-Point channel.
\* ------------------------------------------------------------------------

MaxChannelFuel == 7

ChannelInputs ==
    { StartInput(FileAbsent, JsonOf("timeout", 1), 1, 0),
      StartInput(FileAbsent, Json("ok", ("timeout" :> 1) @@ ("beacons" :> 1)), 1, 1) }

InitChannel ==
    /\ store = processstore_new
    /\ calls = <<>>
    /\ sent = <<>>
    /\ locks = <<>>
    /\ daemon = "running"
    /\ nsess = 0
    /\ quota = [starts |-> 1, completes |-> 0, fuel |-> MaxChannelFuel,
                ops |-> 0, harvests |-> 0]

ChannelStartAuth ==
    /\ quota.fuel > 0
    /\ \E in \in ChannelInputs, oracle \in StartOracles :
         StartAuthWith("alice", in, oracle)

NextChannel ==
    \/ ChannelStartAuth
    \/ Timeout
    \/ ReadComplete
    \/ WriteComplete
    \/ RetryConnection
    \/ ServiceTimeout
    \/ WallclockTimeout
    \/ BeaconFinished

SpecChannel == InitChannel /\ [][NextChannel]_vars

\* ------------------------------------------------------------------------
\* PAM runs: one call of pam_sm_authenticate in the PAM client.  In these
\* runs store holds the local variables of pam_auth, calls the method calls
\* the client has put on the bus and sent the replies the bus has delivered
\* to it.
\* ------------------------------------------------------------------------

\* how far a blocking method call gets: no bus connection, no message, a
\* parameter that cannot be appended, a send that fails, an error reply, a
\* reply whose arguments have the wrong types, or a well-formed reply
DBusStages == {"nobus", "nomsg", "noappend", "nosend", "errorreply", "badargs", "ok"}

\* the stages at which the method call has left the client
DBusSent == {"nosend", "errorreply", "badargs", "ok"}

\* the stages at which a reply has come back
DBusAnswered == {"errorreply", "badargs", "ok"}

\* the well-formed replies to StartAuth and to CompleteAuth
PamStartReplies ==
    { StartReply(1, 1, handle, code, success) :
        handle \in {-1, 0, 7}, code \in {"", "code"}, success \in BOOLEAN }
PamCompleteReplies ==
    { CompleteReply(2, 1, user, token, success) :
        user \in {"", "alice", "bob"}, token \in {"", "token"}, success \in BOOLEAN }

\* notify_service_start_auth that believes the reply whatever happened to it
notify_service_start_auth_trusting(stage, reply) ==
    [success |-> reply.success, handle |-> reply.handle, code |-> reply.code]

\* notify_service_start_auth: success starts as false and is only written by
\* dbus_message_get_args, which is reached when every earlier step succeeded;
\* handle and code are copied only then (the result is zeroed by CALLOC)
notify_service_start_auth(stage, reply) ==
    IF stage = "ok"
    THEN [success |-> reply.success, handle |-> reply.handle, code |-> reply.code]
    ELSE [success |-> FALSE, handle |-> 0, code |-> "NULL"]

\* notify_service_complete_auth
notify_service_complete_auth(stage, reply) ==
    IF stage = "ok"
    THEN [success |-> reply.success, username |-> reply.user, password |-> reply.token]
    ELSE [success |-> FALSE, username |-> "NULL", password |-> "NULL"]

\* the method call as it is recorded when it has left the client
PamCall(kind, handle, stage) ==
    [kind |-> kind, handle |-> handle, sid |-> 0, deferred |-> FALSE,
     result |-> stage = "ok", stage |-> stage]

InitPam ==
    /\ \E username \in {"alice", "bob"}, anyuser \in BOOLEAN, requestInput \in BOOLEAN :
         store = [pc |-> "start", username |-> username, anyuser |-> anyuser,
                  requestInput |-> requestInput, result |-> FALSE,
                  startstage |-> "none", completestage |-> "none",
                  startauthresult |-> notify_service_start_auth("nobus", StartReply(1, 1, 0, "", FALSE)),
                  completeauthresult |-> notify_service_complete_auth("nobus", CompleteReply(2, 1, "", "", FALSE)),
                  prompted |-> FALSE, PAM_USER |-> username, PAM_AUTHTOK |-> "NULL",
                  rc |-> "none"]
    /\ calls = <<>>
    /\ sent = <<>>
    /\ locks = <<>>
    /\ daemon = "running"
    /\ nsess = 0
    /\ quota = [starts |-> 0, completes |-> 0, fuel |-> 0, ops |-> 0, harvests |-> 0]

\* pam_auth after the StartAuth exchange, whose outcome is r
PamStarted(stage, reply, r) ==
    /\ store' = [store EXCEPT !.startstage = stage, !.startauthresult = r,
                              !.result = r.success,
                              !.pc = IF r.success THEN "prompt" ELSE "return"]
    /\ calls' = IF stage \in DBusSent
                THEN Append(calls, PamCall("start", -1, stage)) ELSE calls
    /\ sent' = IF stage \in DBusAnswered THEN Append(sent, reply) ELSE sent

\* pam_auth up to the end of the StartAuth exchange
PamStartAuth ==
    /\ store.pc = "start"
    /\ \E stage \in DBusStages, reply \in PamStartReplies :
         PamStarted(stage, reply, notify_service_start_auth(stage, reply))
    /\ UNCHANGED <<locks, daemon, nsess, quota>>

\* pam_auth shows the code to the user
PamPrompt ==
    /\ store.pc = "prompt"
    /\ store' = [store EXCEPT !.prompted = TRUE, !.pc = "complete"]
    /\ UNCHANGED <<calls, sent, locks, daemon, nsess, quota>>

\* pam_auth after the CompleteAuth exchange, whose outcome is r
PamCompleted(stage, reply, r) ==
    /\ store' = [store EXCEPT !.completestage = stage, !.completeauthresult = r,
                              !.result = r.success, !.pc = "return"]
    /\ calls' = IF stage \in DBusSent
                THEN Append(calls, PamCall("complete", store.startauthresult.handle, stage))
                ELSE calls
    /\ sent' = IF stage \in DBusAnswered THEN Append(sent, reply) ELSE sent

\* pam_auth from the prompt to the end of the CompleteAuth exchange
PamCompleteAuth ==
    /\ store.pc = "complete"
    /\ \E stage \in DBusStages, reply \in PamCompleteReplies :
         PamCompleted(stage, reply, notify_service_complete_auth(stage, reply))
    /\ UNCHANGED <<locks, daemon, nsess, quota>>

\* the end of pam_auth and of pam_sm_authenticate
PamReturn ==
    /\ store.pc = "return"
    /\ store' = [store EXCEPT
           !.PAM_USER = IF store.result /\ store.anyuser
                        THEN store.completeauthresult.username ELSE @,
           !.PAM_AUTHTOK = IF store.result THEN store.completeauthresult.password ELSE @,
           !.rc = IF store.result THEN "PAM_SUCCESS" ELSE "PAM_AUTH_ERR",
           !.pc = "done"]
    /\ UNCHANGED <<calls, sent, locks, daemon, nsess, quota>>

NextPam ==
    \/ PamStartAuth
    \/ PamPrompt
    \/ PamCompleteAuth
    \/ PamReturn

SpecPam == InitPam /\ [][NextPam]_vars

\* ------------------------------------------------------------------------
\* Properties
\* ------------------------------------------------------------------------
PresentHandles(S) == { h \in Handles : S.items[h].present }
HarvestableHandles(S) ==
    { h \in PresentHandles(S) :
        S.items[h].auththread.state = AUTHTHREADSTATE_HARVESTABLE }
SessionAt(S, h) == IF Present(S, h) THEN S.items[h].auththread.sid ELSE 0
LastOf(seq) == seq[Len(seq)]
StartStep == Len(calls') = Len(calls) + 1 /\ LastOf(calls').kind = "start"
CompleteStep == Len(calls') = Len(calls) + 1 /\ LastOf(calls').kind = "complete"
HarvestStep == quota'.harvests # quota.harvests
RepliesTo(inv) == { i \in 1..Len(sent) : sent[i].inv = inv }

\* the slot that holds session sid in store S, or NIL
SlotOf(S, sid) ==
    IF \E h \in Handles : SessionAt(S, h) = sid
    THEN CHOOSE h \in Handles : SessionAt(S, h) = sid
    ELSE NIL
\* the session is over: it is Harvestable, or has left the registry
SessionOver(sid) ==
    \/ SlotOf(store, sid) = NIL
    \/ store.items[SlotOf(store, sid)].auththread.state = AUTHTHREADSTATE_HARVESTABLE
NewReplies == { k \in 1..Len(sent') : k > Len(sent) }

\* C1: for every session at most one StartAuth reply and at most one
\* CompleteAuth reply is ever emitted.
AtMostOneReplyOfEachKind ==
    \A sid \in 1..nsess :
        /\ Cardinality({ k \in 1..Len(sent) :
                           sent[k].sid = sid /\ sent[k].kind = "start" }) <= 1
        /\ Cardinality({ k \in 1..Len(sent) :
                           sent[k].sid = sid /\ sent[k].kind = "complete" }) <= 1

\* C2: once a session is over, every CompleteAuth call that was bound to it
\* has received exactly one reply.
BoundCompleteAuthAnswered ==
    daemon = "running"
    => \A i \in 1..Len(calls) :
         (calls[i].kind = "complete" /\ calls[i].sid # 0 /\ SessionOver(calls[i].sid))
         => Cardinality(RepliesTo(i)) = 1

\* C3: every StartAuth call has, when its handler returns, exactly one reply
\* (handle, code, success).
StartAuthAnsweredAtOnce ==
    daemon = "running"
    => \A i \in 1..Len(calls) :
         calls[i].kind = "start"
         => Cardinality({ k \in RepliesTo(i) : sent[k].kind = "start" }) = 1

\* C4: a CompleteAuth call whose handle is negative or names no live session
\* is answered ("", "", false).
UnknownHandleRefused ==
    daemon = "running"
    => \A i \in 1..Len(calls) :
         (calls[i].kind = "complete" /\ calls[i].sid = 0)
         => \E k \in RepliesTo(i) :
              sent[k].kind = "complete" /\ sent[k].user = "" /\ sent[k].token = ""
              /\ ~sent[k].success

\* C5: a CompleteAuth reply for a session is emitted only after the
\* StartAuth reply for that session.
StartReplyFirst ==
    \A k \in 1..Len(sent) :
        (sent[k].kind = "complete" /\ sent[k].sid # 0)
        => \E j \in 1..(k - 1) : sent[j].kind = "start" /\ sent[j].sid = sent[k].sid

\* C6: a reply to a CompleteAuth call carries the outcome of the handshake
\* as the session holds it when the reply is emitted, both when the reply
\* was put off until the handshake resolved and when it is given at once.
CompleteReplyCarriesOutcome ==
    [][ \A k \in NewReplies :
          (/\ sent'[k].kind = "complete"
           /\ sent'[k].sid # 0
           /\ calls'[sent'[k].inv].kind = "complete"
           /\ daemon' = "running")
          => /\ SlotOf(store', sent'[k].sid) # NIL
             /\ sent'[k].success
                = store'.items[SlotOf(store', sent'[k].sid)].auththread.result ]_vars

\* a successful handshake was reported to a caller that was waiting for it
\* and to a caller that asked afterwards
OutcomeReportedBothWays ==
    \E i, j \in 1..Len(calls) :
        /\ calls[i].kind = "complete" /\ calls[i].deferred
        /\ calls[j].kind = "complete" /\ ~calls[j].deferred
        /\ calls[i].sid = calls[j].sid /\ calls[i].sid # 0
        /\ \E k \in RepliesTo(i) : sent[k].success
        /\ \E k \in RepliesTo(j) : sent[k].success

\* C9: a session's state never moves backwards in the order Invalid,
\* Started, Completed, Continuing, Harvestable, and a session is Continuing
\* only with a successful handshake and continuous mode set.
StateMonotonic ==
    [][ \A h \in Handles :
          (Present(store', h) /\ daemon' = "running")
          => /\ (SessionAt(store, h) = SessionAt(store', h))
                => store'.items[h].auththread.state >= store.items[h].auththread.state
             /\ (store'.items[h].auththread.state = AUTHTHREADSTATE_CONTINUING)
                => /\ store'.items[h].auththread.result
                   /\ store'.items[h].auththread.authconfig.continuous ]_vars

\* C7: at every instant the sessions on the live list are exactly the
\* sessions of the registry, and their handles are pairwise distinct and
\* lie in 0 .. MAX_SIMULTANEOUS_AUTHS - 1.
HandlesDistinctInRange ==
    LET L == LiveList(store)
    IN /\ \A i \in 1..Len(L) : L[i] \in PresentHandles(store)
       /\ Len(L) = Cardinality(PresentHandles(store))
       /\ \A i \in 1..Len(L) :
            /\ store.items[L[i]].auththread.handle = L[i]
            /\ store.items[L[i]].auththread.handle \in 0..(MAX_SIMULTANEOUS_AUTHS - 1)
       /\ \A i, j \in 1..Len(L) :
            i # j => store.items[L[i]].auththread.handle
                     # store.items[L[j]].auththread.handle

\* the registry is full again after sessions were removed and harvested
FullAfterRemovals ==
    /\ Cardinality(PresentHandles(store)) = MAX_SIMULTANEOUS_AUTHS
    /\ quota.ops < MaxStoreOps
    /\ quota.harvests < MaxStoreHarvests
    /\ nsess > MAX_SIMULTANEOUS_AUTHS

\* C8: a StartAuth that finds MAX_SIMULTANEOUS_AUTHS sessions live and none
\* Harvestable is answered (-1, "", false) and leaves the registry as it
\* was; one that finds them live and some Harvestable puts its new session
\* in the slot of a Harvestable one and answers with that handle and
\* success.
ExhaustionAndReclaim ==
    [][ (StartStep /\ daemon' = "running"
         /\ Cardinality(PresentHandles(store)) = MAX_SIMULTANEOUS_AUTHS)
        => IF HarvestableHandles(store) = {}
           THEN /\ store' = store
                /\ sent' = Append(sent, StartReply(Len(calls'), 0, -1, "", FALSE))
           ELSE /\ LastOf(calls').handle \in HarvestableHandles(store)
                /\ LastOf(calls').handle < MAX_SIMULTANEOUS_AUTHS
                /\ SessionAt(store', LastOf(calls').handle) = nsess'
                /\ nsess' = nsess + 1
                /\ \E i \in 1..Len(sent') :
                     /\ sent'[i].inv = Len(calls')
                     /\ sent'[i].kind = "start"
                     /\ sent'[i].handle = LastOf(calls').handle
                     /\ sent'[i].success ]_vars

\* a StartAuth was refused for want of a slot and a later one succeeded
RefusedThenReclaimed ==
    \E i, j \in 1..Len(sent) :
        /\ i < j
        /\ sent[i].kind = "start" /\ sent[i].handle = -1
        /\ sent[j].kind = "start" /\ sent[j].handle >= 0 /\ sent[j].success
        /\ sent[j].sid > MAX_SIMULTANEOUS_AUTHS

\* C10: a harvest, whether called on the registry or by processstore_add,
\* takes a session out of the registry if and only if the session is
\* Harvestable.
HarvestExactlyHarvestable ==
    [][ ((HarvestStep \/ StartStep) /\ daemon' = "running")
        => \A h \in PresentHandles(store) :
             (SessionAt(store', h) # SessionAt(store, h))
             <=> (h \in HarvestableHandles(store)) ]_vars

\* a harvest has taken a session out and left others in
HarvestedSome ==
    /\ quota.harvests < MaxStoreHarvests
    /\ quota.ops = MaxStoreOps - 2
    /\ Cardinality(PresentHandles(store)) = nsess - 1
    /\ nsess > 1

\* the value a caller's dictionary gives a flag, or the given value where
\* the caller's parameters do not supply the flag
CallerFlag(parameters, key, otherwise) ==
    IF parameters.form = "ok" /\ key \in DOMAIN parameters.d
    THEN parameters.d[key] # 0
    ELSE otherwise

\* the StartAuth calls of a configuration run whose session is in the
\* registry
ConfiguredCalls ==
    { i \in 1..Len(calls) :
        /\ calls[i].kind = "start" /\ calls[i].handle >= 0
        /\ SessionAt(store, calls[i].handle) = calls[i].sid }

\* the effective configuration of the session of call i
EffectiveConfig(i) == store.items[calls[i].handle].auththread.authconfig

\* C11: the effective anyuser of a session is the caller's value if the
\* caller supplied one and the default otherwise, whatever config.txt holds.
AnyUserIndependentOfFile ==
    \A i \in ConfiguredCalls :
        EffectiveConfig(i).anyuser
        = CallerFlag(calls[i].in.parameters, "anyuser", authconfig_new.anyuser)

\* C12: where config.txt exists but is not a JSON object, the session's
\* effective configuration is the defaults overlaid by the caller's
\* dictionary.
MalformedFileContributesNothing ==
    \A i \in ConfiguredCalls :
        calls[i].in.file.form = "bad"
        => /\ EffectiveConfig(i).anyuser
              = CallerFlag(calls[i].in.parameters, "anyuser", authconfig_new.anyuser)
           /\ EffectiveConfig(i).continuous
              = CallerFlag(calls[i].in.parameters, "continuous",
                           authconfig_new.continuous)

\* the sessions whose StartAuth was answered with a handle and a failure:
\* anyuser was false and no row of the user table carried the username
FilterEmptySessions ==
    { sent[k].sid : k \in { j \in 1..Len(sent) :
                              /\ sent[j].kind = "start" /\ sent[j].handle >= 0
                              /\ ~sent[j].success } }

\* the service of session sid was never started: no beacon code was made
\* and no request was ever queued
NeverStarted(sid) ==
    SlotOf(store, sid) # NIL
    => /\ store.items[SlotOf(store, sid)].auththread.svc.beacon = "NULL"
       /\ store.items[SlotOf(store, sid)].auththread.svc.inflight = <<>>
       /\ ~store.items[SlotOf(store, sid)].auththread.svc.reading

\* C13: a session whose user filter came out empty never starts the
\* handshake, no reply for it reports success, and a CompleteAuth bound to
\* it is answered unless the session's time limit is still to come.
FilterEmptyFailsDirectly ==
    daemon = "running"
    => \A sid \in FilterEmptySessions :
         /\ NeverStarted(sid)
         /\ \A k \in 1..Len(sent) : sent[k].sid = sid => ~sent[k].success
         /\ \A i \in 1..Len(calls) :
              (calls[i].kind = "complete" /\ calls[i].sid = sid)
              => \/ RepliesTo(i) # {}
                 \/ /\ SlotOf(store, sid) # NIL
                    /\ store.items[SlotOf(store, sid)].auththread.timeoutid

\* the StartAuth calls of a user table run for which service_start was
\* called
UsersCalls ==
    { i \in 1..Len(calls) :
        /\ calls[i].kind = "start" /\ calls[i].handle >= 0 /\ calls[i].started
        /\ SessionAt(store, calls[i].handle) = calls[i].sid }

\* C14: with anyuser false the rows handed to the handshake all carry the
\* requested username, and a reply that reports success names that
\* username; with anyuser true the whole table is handed over.
OnlyRequestedUserHanded ==
    \A i \in UsersCalls :
        /\ EffectiveConfig(i).anyuser => calls[i].handed = calls[i].users
        /\ ~EffectiveConfig(i).anyuser
           => /\ calls[i].handed # {}
              /\ \A row \in calls[i].handed : row.name = calls[i].username
              /\ \A k \in 1..Len(sent) :
                   (sent[k].sid = calls[i].sid /\ sent[k].kind = "complete"
                    /\ sent[k].success)
                   => sent[k].user = calls[i].username

\* a session for one user was started with anyuser false while users.txt
\* held rows of another user too, and its CompleteAuth reported success
FilteredSessionSucceeded ==
    \E i \in UsersCalls :
        /\ ~EffectiveConfig(i).anyuser
        /\ calls[i].handed # calls[i].users
        /\ \E k \in 1..Len(sent) :
             /\ sent[k].sid = calls[i].sid /\ sent[k].kind = "complete"
             /\ sent[k].success /\ calls[sent[k].inv].kind = "complete"

\* the step is the arrival of a NameOwnerChanged signal
OwnerLostStep ==
    /\ Len(calls') = Len(calls) + 1
    /\ calls'[Len(calls')].kind = "ownerlost"

\* the live sessions that the caller owner started and that have not
\* reached Completed
PendingSessionsOf(owner) ==
    { h \in Handles :
        /\ Present(store, h)
        /\ store.items[h].auththread.state < AUTHTHREADSTATE_COMPLETED
        /\ \E i \in 1..Len(calls) :
             /\ calls[i].kind = "start" /\ calls[i].owner = owner
             /\ calls[i].handle = h /\ calls[i].sid = SessionAt(store, h) }

\* C15: when the caller that started a session leaves the bus before the
\* session has reached Completed, the session is stopped: its service is
\* stopping, or it is Harvestable already.
OwnerLostStopsSession ==
    [][ (OwnerLostStep /\ daemon' = "running")
        => \A h \in PendingSessionsOf(calls'[Len(calls')].owner) :
             /\ Present(store', h)
             /\ \/ store'.items[h].auththread.state = AUTHTHREADSTATE_HARVESTABLE
                \/ store'.items[h].auththread.svc.stopping ]_vars

\* the step is the expiry of a session's time limit
TimeoutStep ==
    /\ Len(calls') = Len(calls) + 1
    /\ calls'[Len(calls')].kind = "timeout"

\* the expiries of the time limit of session sid recorded so far
TimeoutsOf(sid) == { i \in 1..Len(calls) : calls[i].kind = "timeout" /\ calls[i].sid = sid }

\* C16: the time limit of a session expires at most once, and when it
\* expires the session is asked to stop: its service is stopping, or it is
\* Harvestable, and the timer is no longer set.
TimeoutOnceAndStops ==
    [][ (TimeoutStep /\ daemon' = "running")
        => /\ TimeoutsOf(calls'[Len(calls')].sid) = {}
           /\ Present(store', calls'[Len(calls')].handle)
           /\ ~store'.items[calls'[Len(calls')].handle].auththread.timeoutid
           /\ \/ store'.items[calls'[Len(calls')].handle].auththread.state
                   = AUTHTHREADSTATE_HARVESTABLE
              \/ store'.items[calls'[Len(calls')].handle].auththread.svc.stopping ]_vars

\* the time limit of a session has expired before it was authenticated, and
\* the session, asked to stop, has become Harvestable and a completion reply
\* has been sent for it
TimeoutExpiredAndStopped ==
    \E i \in 1..Len(calls) :
        /\ calls[i].kind = "timeout"
        /\ Present(store, calls[i].handle)
        /\ store.items[calls[i].handle].auththread.sid = calls[i].sid
        /\ store.items[calls[i].handle].auththread.state = AUTHTHREADSTATE_HARVESTABLE
        /\ \E j \in 1..Len(sent) : sent[j].kind = "complete" /\ sent[j].sid = calls[i].sid

\* the number of times the lock command has been run for session sid
LocksOf(L, sid) == Cardinality({ i \in 1..Len(L) : L[i] = sid })

\* session sid is in the store in the Continuing state
IsContinuing(S, sid) ==
    \E h \in Handles :
        /\ Present(S, h)
        /\ S.items[h].auththread.sid = sid
        /\ S.items[h].auththread.state = AUTHTHREADSTATE_CONTINUING

\* C17: the lock command is run for a session's user in the very step in
\* which the session leaves the Continuing state, and a Fin or Error update
\* of a session whose result is success runs it too.
LockOnLeavingContinuing ==
    [][ daemon' = "running" =>
        /\ \A sid \in 1..nsess :
               (IsContinuing(store, sid) /\ ~IsContinuing(store', sid))
                   => LocksOf(locks', sid) > LocksOf(locks, sid)
        /\ \A h \in Handles, update \in {"FIN", "ERROR"} :
               (Live(h) /\ store.items[h].auththread.result)
                   => LocksOf(authhtread_service_update(World("sent", <<>>), h, update).locks,
                              store.items[h].auththread.sid)
                        = LocksOf(locks, store.items[h].auththread.sid) + 1 ]_vars

\* the session at handle h has completed its first successful handshake in
\* this step
Authenticated(h) ==
    /\ Live(h) /\ Present(store', h)
    /\ store'.items[h].auththread.sid = store.items[h].auththread.sid
    /\ ~store.items[h].auththread.result
    /\ store'.items[h].auththread.result

Similar(S, h, new) ==
    /\ h # new
    /\ S.items[h].auththread.state = AUTHTHREADSTATE_CONTINUING
    /\ S.items[h].auththread.username = S.items[new].auththread.username
    /\ S.items[new].auththread.state >= AUTHTHREADSTATE_STARTED
    /\ S.items[h].auththread.shared = S.items[new].auththread.shared

\* C19: a StartAuth call that adds a session asks every session it
\* supersedes to stop and leaves every other session that stays in the
\* store as it was; the new session is not asked to stop by it.
StopSimilarExact ==
    [][ (StartStep /\ daemon' = "running" /\ calls'[Len(calls')].handle >= 0)
        => /\ \A h \in Handles :
                  (/\ h # calls'[Len(calls')].handle
                   /\ Live(h) /\ Present(store', h))
                  => IF Similar([store' EXCEPT !.items[h] = store.items[h]],
                                h, calls'[Len(calls')].handle)
                     THEN \/ store'.items[h].auththread.svc.stopping
                          \/ store'.items[h].auththread.state = AUTHTHREADSTATE_HARVESTABLE
                     ELSE store'.items[h].auththread = store.items[h].auththread
           /\ ~Similar(store', calls'[Len(calls')].handle, calls'[Len(calls')].handle) ]_vars

\* a session authenticated in continuous mode, then a StartAuth call for
\* the same user added a newer session, and the service of the older one is
\* stopping
SupersededStopped ==
    \E h, new \in Handles :
        /\ Live(h) /\ Live(new) /\ h # new
        /\ store.items[h].auththread.username = store.items[new].auththread.username
        /\ store.items[h].auththread.authconfig.continuous
        /\ store.items[h].auththread.state = AUTHTHREADSTATE_CONTINUING
        /\ store.items[h].auththread.svc.stopping
        /\ \E i, j \in 1..Len(sent) :
             /\ i < j
             /\ sent[i].kind = "complete" /\ sent[i].success
             /\ sent[i].sid = store.items[h].auththread.sid
             /\ sent[j].kind = "start" /\ sent[j].success
             /\ sent[j].sid = store.items[new].auththread.sid

\* the sessions that are Continuing for a user and a service identity key
\* and have not been asked to stop
ContinuingFor(username, key) ==
    { h \in Handles :
        /\ Live(h)
        /\ store.items[h].auththread.state = AUTHTHREADSTATE_CONTINUING
        /\ ~store.items[h].auththread.svc.stopping
        /\ store.items[h].auththread.username = username
        /\ store.items[h].auththread.shared = key }

\* C20: at any time at most one session of a user and a service commitment
\* is Continuing, sessions that were already asked to stop not counted.
OneContinuingPerUser ==
    \A username \in {"alice", "bob"}, key \in {"k1", "k2"} :
        Cardinality(ContinuingFor(username, key)) <= 1

\* the step is the loss of the daemon's bus name
NameLostStep ==
    /\ Len(calls') = Len(calls) + 1
    /\ calls'[Len(calls')].kind = "namelost"

\* C21: when the daemon loses its bus name the main loop exits.
NameLostExits == [][ NameLostStep => daemon' = "exited" ]_vars

\* the CompleteAuth calls the PAM client has put on the bus
PamCompleteCalls == { i \in 1..Len(calls) : calls[i].kind = "complete" }

\* C22: the PAM client sends CompleteAuth only after a successful StartAuth
\* reply and with the handle of that reply; it returns success only if both
\* exchanges succeeded; if the StartAuth exchange fails at any step no
\* CompleteAuth is sent and the result is an authentication error.
PamCallOrder ==
    /\ \A i \in PamCompleteCalls :
           /\ Len(sent) >= 1
           /\ sent[1].kind = "start" /\ sent[1].success
           /\ store.startstage = "ok"
           /\ calls[i].handle = sent[1].handle
    /\ Cardinality(PamCompleteCalls) <= 1
    /\ store.rc = "PAM_SUCCESS"
           => /\ store.startstage = "ok" /\ store.completestage = "ok"
              /\ Len(sent) = 2
              /\ sent[1].success /\ sent[2].kind = "complete" /\ sent[2].success
    /\ (store.startstage \notin {"none", "ok"} /\ store.pc = "done")
           => PamCompleteCalls = {} /\ store.rc = "PAM_AUTH_ERR"

\* the PAM client has returned success after both exchanges, having passed
\* on the handle 7 of the StartAuth reply
PamSucceeded ==
    /\ store.pc = "done" /\ store.rc = "PAM_SUCCESS"
    /\ \E i \in PamCompleteCalls : calls[i].handle = 7

\* C23: the stop callback of a session runs at most once, and it has run
\* once for every session that is Harvestable.
StoppedExactlyOnce ==
    \A h \in Handles :
        Live(h) =>
            /\ store.items[h].auththread.stopped <= 1
            /\ store.items[h].auththread.state = AUTHTHREADSTATE_HARVESTABLE
                   => store.items[h].auththread.stopped = 1

\* the stop callback of the session at handle h has run in this step
StoppedStep(h) ==
    /\ Live(h) /\ Present(store', h)
    /\ store'.items[h].auththread.sid = store.items[h].auththread.sid
    /\ store'.items[h].auththread.stopped > store.items[h].auththread.stopped

\* C24: the stop callback runs only when no message of the channel is in
\* flight, no connection is counted and the beacon thread is Invalid or
\* Harvestable with no sender running; and whenever the flags of the stop
\* check say that the channel is idle, no message is in flight.
StoppedOnlyWhenIdle ==
    [][ daemon' = "running" =>
        \A h \in Handles :
            /\ StoppedStep(h) => ~store'.items[h].auththread.stoppedbusy
            /\ (/\ Present(store', h)
                /\ ~store'.items[h].auththread.svc.reading
                /\ ~store'.items[h].auththread.svc.writing
                /\ store'.items[h].auththread.svc.connections = 0)
                 => store'.items[h].auththread.svc.inflight = <<>> ]_vars

\* a session that sent beacons has stopped after its beacon thread and its
\* read had drained
StoppedAfterDrain ==
    \E h \in Handles :
        /\ Live(h)
        /\ store.items[h].auththread.stopped = 1
        /\ store.items[h].auththread.state = AUTHTHREADSTATE_HARVESTABLE
        /\ store.items[h].auththread.svc.beaconstate = BEACONTHREADSTATE_HARVESTABLE
        /\ store.items[h].auththread.svc.inflight = <<>>

\* the operations a stopping session still waits for: the messages in flight
\* and the beacon senders that are running
Draining(S, h) ==
    Len(S.items[h].auththread.svc.inflight) + S.items[h].auththread.svc.running

\* C25: while a session is stopping, no event gives it more to wait for:
\* the number of operations in flight never grows, and a message that
\* completes is not replaced by a new one, so that the drain ends as soon
\* as the operations in flight at the stop request have completed.
DrainMakesProgress ==
    [][ daemon' = "running" =>
        \A h \in Handles :
            (/\ Live(h) /\ Present(store', h)
             /\ store'.items[h].auththread.sid = store.items[h].auththread.sid
             /\ store.items[h].auththread.svc.stopping
             /\ store'.items[h].auththread.svc.stopping)
            => /\ Draining(store', h) <= Draining(store, h)
               /\ store'.items[h].auththread.svc.inflight
                      # store.items[h].auththread.svc.inflight
                    => Len(store'.items[h].auththread.svc.inflight)
                         < Len(store.items[h].auththread.svc.inflight) ]_vars

\* the messages of one kind that the channel at handle h has queued on its
\* session, that have not completed and that nothing has cancelled
Running(h, kind) ==
    { i \in 1..Len(store.items[h].auththread.svc.inflight) :
        /\ store.items[h].auththread.svc.inflight[i].kind = kind
        /\ store.items[h].auththread.svc.inflight[i].status = "none" }

\* C26: on every channel at most one GET and at most one POST is in flight;
\* a message that was cancelled and whose callback has yet to run is not
\* counted.
OneGetOnePost ==
    \A h \in Handles :
        Live(h) => /\ Cardinality(Running(h, "GET")) <= 1
                   /\ Cardinality(Running(h, "POST")) <= 1

\* this step is the completion of the i-th message in flight of the session
\* at handle h, a GET that nothing has cancelled, with a body of more than
\* four bytes that begins with '{'
KeepaliveStep(h, i) ==
    /\ daemon = "running" /\ daemon' = "running"
    /\ quota'.fuel < quota.fuel
    /\ store.items[h].auththread.svc.inflight[i].kind = "GET"
    /\ store.items[h].auththread.svc.inflight[i].status = "none"
    /\ store' = servicervp_read_complete(World("sent", <<>>), h, i, "OK_KEEPALIVE").store

\* the session but for the bookkeeping of its messages: what the handshake
\* state machine and its callbacks can change on incoming data
Handshake(S, h) ==
    [S.items[h].auththread EXCEPT
        !.svc = [connected |-> @.connected, timeoutid |-> @.timeoutid,
                 stopping |-> @.stopping, beaconstate |-> @.beaconstate,
                 posts |-> Cardinality({ j \in 1..Len(@.inflight) :
                                           @.inflight[j].kind = "POST" })]]

\* C27: when a GET completes with a body that begins with '{', nothing is
\* delivered to the handshake state machine (the session is as before, no
\* reply is sent, no POST is queued) and a new GET is started: afterwards
\* the message the channel holds is a GET that has just been queued.
KeepaliveRestartsGet ==
    [][ \A h \in Handles :
          Started(h) =>
            \A i \in 1..Len(store.items[h].auththread.svc.inflight) :
                KeepaliveStep(h, i)
                  => /\ Handshake(store', h) = Handshake(store, h)
                     /\ sent' = sent /\ locks' = locks
                     /\ store'.items[h].auththread.svc.reading
                     /\ \E j \in 1..Len(store'.items[h].auththread.svc.inflight) :
                          store'.items[h].auththread.svc.inflight[j]
                            = [kind |-> "GET", cur |-> TRUE, status |-> "none"] ]_vars

\* this step is the completion of the i-th message in flight of the session
\* at handle h, a GET, with a connection failure that is neither a
\* cancellation nor one of the errors on which the GET is restarted at once
FailedStep(h, i) ==
    /\ daemon = "running" /\ daemon' = "running"
    /\ quota'.fuel < quota.fuel
    /\ store.items[h].auththread.svc.inflight[i].kind = "GET"
    /\ store.items[h].auththread.svc.inflight[i].status = "none"
    /\ store' = servicervp_read_complete(World("sent", <<>>), h, i, "FAILED").store

\* C28: after a GET has ended with a connection failure, exactly one retry
\* timer is pending on the channel and it fires 1000 ms after it was added;
\* and at no time is more than one retry timer pending on a channel.
OneRetryPending ==
    [][ \A h \in Handles :
          /\ Present(store', h) =>
               Len(store'.items[h].auththread.svc.retries) <= 1
          /\ Started(h) =>
               \A i \in 1..Len(store.items[h].auththread.svc.inflight) :
                   FailedStep(h, i)
                     => store'.items[h].auththread.svc.retries = <<1000>> ]_vars

\* a retry is pending on a channel on which a GET is in flight again
RetryPendingWhileReading ==
    \E h \in Handles :
        /\ Started(h)
        /\ store.items[h].auththread.svc.retries = <<1000>>
        /\ \E i \in 1..Len(store.items[h].auththread.svc.inflight) :
             /\ store.items[h].auththread.svc.inflight[i].kind = "GET"
             /\ store.items[h].auththread.svc.inflight[i].status = "none"

\* this step is the tick of the wall clock timer of the session at handle h
\* that finds the watchdog duration has elapsed
WallclockStep(h) ==
    /\ daemon = "running" /\ daemon' = "running"
    /\ quota'.fuel < quota.fuel
    /\ store.items[h].auththread.svc.wallclocktimerid
    /\ store' = servicervp_wallclock_timeout(World("sent", <<>>), h).store

\* the GETs in flight on the channel of handle h in store S that nothing has
\* cancelled
ReadsRunning(S, h) ==
    { i \in 1..Len(S.items[h].auththread.svc.inflight) :
        /\ S.items[h].auththread.svc.inflight[i].kind = "GET"
        /\ S.items[h].auththread.svc.inflight[i].status = "none" }

\* C29: every GET in flight is watched: the wall clock timer runs and the
\* GET is the message it will cancel; and when the timer finds the watchdog
\* duration has elapsed on a GET, that GET is cancelled and a new GET is
\* queued in the same step if and only if the channel was reading.
WatchdogCancelsAndRestarts ==
    [][ \A h \in Handles :
          (Started(h) /\ daemon' = "running" /\ Present(store', h)) =>
            /\ \A i \in ReadsRunning(store', h) :
                 /\ store'.items[h].auththread.svc.wallclocktimerid
                 /\ store'.items[h].auththread.svc.inflight[i].cur
            /\ (WallclockStep(h) /\ ReadsRunning(store, h) # {}) =>
                 /\ \A i \in ReadsRunning(store, h) :
                      store'.items[h].auththread.svc.inflight[i].status = "IO_ERROR"
                 /\ store.items[h].auththread.svc.reading
                      <=> /\ Len(store'.items[h].auththread.svc.inflight)
                               = Len(store.items[h].auththread.svc.inflight) + 1
                          /\ ReadsRunning(store', h)
                               = {Len(store'.items[h].auththread.svc.inflight)} ]_vars

\* C30: the finish callback of a beacon thread runs at most once; it has
\* run only if the thread was started and no sender is running; and it has
\* run once the thread has been asked to stop and no sender is running.
BeaconsFinishOnce ==
    \A h \in Handles :
        Started(h) =>
            /\ store.items[h].auththread.svc.finishes <= 1
            /\ store.items[h].auththread.svc.finishes >= 1
                 => /\ store.items[h].auththread.svc.beaconstate
                          # BEACONTHREADSTATE_INVALID
                    /\ store.items[h].auththread.svc.running = 0
            /\ (/\ store.items[h].auththread.svc.beaconstate
                     \in {BEACONTHREADSTATE_COMPLETED, BEACONTHREADSTATE_HARVESTABLE}
                /\ store.items[h].auththread.svc.running = 0)
                 => store.items[h].auththread.svc.finishes >= 1

\* ------------------------------------------------------------------------
\* Beacon send runs: the event chain that sends the beacon to one device
\* ------------------------------------------------------------------------
BEACONSENDSTATE_INVALID == -1
BEACONSENDSTATE_STARTING == 0
BEACONSENDSTATE_READY == 1
BEACONSENDSTATE_SENDING == 2
BEACONSENDSTATE_STOPPING == 3
BEACONSENDSTATE_STOPPED == 4

MaxBeaconLen == 3

\* the bytes a beacon code is made of: 'A' and '{' (a C string holds no 0)
BeaconBytes == {65, 123}
BeaconCodes ==
    UNION { [1..n -> BeaconBytes] : n \in 0..MaxBeaconLen }

\* the length n as four bytes, most significant first
BigEndian32(n) ==
    << (n \div 16777216) % 256, (n \div 65536) % 256, (n \div 256) % 256, n % 256 >>

\* beaconsend_new followed by beaconsend_set_code.  watch tells whether the
\* watch on the SDP socket is set, connecting whether the connection to the
\* device is being made, timer whether the search timer is set; wrote and
\* written are the history of the last write to the device.
beaconsend_new(code) ==
    [state |-> BEACONSENDSTATE_INVALID, connections |-> 0, code |-> code,
     watch |-> FALSE, connecting |-> FALSE, timer |-> FALSE,
     finished |-> 0, wrote |-> FALSE, written |-> <<>>]

\* beaconsend_finished
beaconsend_finished(b) ==
    [b EXCEPT !.state = BEACONSENDSTATE_STOPPED, !.finished = @ + 1]

\* the end of beaconsend_sdp_search
SearchFinish(b) ==
    IF b.connections = 0 /\ b.state = BEACONSENDSTATE_STOPPING
    THEN beaconsend_finished(b) ELSE b

\* beaconsend_sdp_search: session tells whether sdp_connect gave a session
beaconsend_sdp_search(b, session) ==
    SearchFinish(
        IF b.state \in {BEACONSENDSTATE_STARTING, BEACONSENDSTATE_READY}
        THEN IF session
             THEN [b EXCEPT !.state = BEACONSENDSTATE_SENDING,
                            !.connections = @ + 1, !.watch = TRUE]
             ELSE [b EXCEPT !.state = BEACONSENDSTATE_READY]
        ELSE b)

\* what beaconsend_start and the timer do with the value the search returns
KeepTimer(b) == [b EXCEPT !.timer = (b.state # BEACONSENDSTATE_STOPPED)]

\* beaconsend_start
beaconsend_start(b, session) ==
    KeepTimer(beaconsend_sdp_search(
                  [b EXCEPT !.state = BEACONSENDSTATE_STARTING], session))

\* beaconsend_stop
beaconsend_stop(b) ==
    IF b.state # BEACONSENDSTATE_STOPPED
    THEN [b EXCEPT !.state = BEACONSENDSTATE_STOPPING] ELSE b

\* beaconsend_sdp_connect: channel is the RFCOMM channel found in the SDP
\* records of the device, -1 if none was found
beaconsend_sdp_connect(b, channel) ==
    IF b.state = BEACONSENDSTATE_SENDING /\ channel >= 0
    THEN [b EXCEPT !.watch = FALSE, !.connecting = TRUE]
    ELSE [b EXCEPT !.watch = FALSE, !.connections = @ - 1,
                   !.state = IF @ # BEACONSENDSTATE_STOPPING
                             THEN BEACONSENDSTATE_READY ELSE @]

\* beaconsend_write_connect: result is what
\* g_socket_connection_connect_finish returns, size the number of bytes
\* g_output_stream_write reports as written
beaconsend_write_connect(b, result, size) ==
    [b EXCEPT !.connecting = FALSE, !.connections = @ - 1,
              !.state = IF @ # BEACONSENDSTATE_STOPPING
                        THEN BEACONSENDSTATE_READY ELSE @,
              !.wrote = IF result THEN TRUE ELSE @,
              !.written = IF result THEN SubSeq(b.code, 1, size) ELSE @]

InitBeacon ==
    /\ store \in { beaconsend_new(code) : code \in BeaconCodes }
    /\ calls = <<>>
    /\ sent = <<>>
    /\ locks = <<>>
    /\ daemon = "running"
    /\ nsess = 0
    /\ quota = [starts |-> 0, completes |-> 0, fuel |-> 0, ops |-> 0, harvests |-> 0]

BeaconFrame == UNCHANGED <<calls, sent, locks, daemon, nsess, quota>>

\* beaconthread_start starts the chain
BeaconSendStart ==
    /\ store.state = BEACONSENDSTATE_INVALID
    /\ \E session \in BOOLEAN : store' = beaconsend_start(store, session)
    /\ BeaconFrame

\* the search timer fires
BeaconSendSearch ==
    /\ store.timer
    /\ \E session \in BOOLEAN :
         store' = KeepTimer(beaconsend_sdp_search(store, session))
    /\ BeaconFrame

\* the SDP socket becomes ready or fails
BeaconSendConnect ==
    /\ store.watch
    /\ \E channel \in {-1, 1} : store' = beaconsend_sdp_connect(store, channel)
    /\ BeaconFrame

\* the connection to the device is made or fails; a write can be short
BeaconSendWrite ==
    /\ store.connecting
    /\ \E result \in BOOLEAN, size \in 0..Len(store.code) :
         store' = beaconsend_write_connect(store, result, size)
    /\ BeaconFrame

\* beaconthread_stop stops the chain
BeaconSendStop ==
    /\ store.state \notin {BEACONSENDSTATE_INVALID, BEACONSENDSTATE_STOPPED,
                           BEACONSENDSTATE_STOPPING}
    /\ store' = beaconsend_stop(store)
    /\ BeaconFrame

NextBeacon ==
    \/ BeaconSendStart \/ BeaconSendSearch \/ BeaconSendConnect
    \/ BeaconSendWrite \/ BeaconSendStop

SpecBeacon == InitBeacon /\ [][NextBeacon]_vars

\* C31: the bytes written to a beacon target are the length of the beacon
\* code as four bytes, most significant first, followed by the code.
BeaconFramed ==
    store.wrote => store.written = BigEndian32(Len(store.code)) \o store.code

\* ------------------------------------------------------------------------
\* Bluetooth Classic service runs: the stream channel of one session
\* ------------------------------------------------------------------------
MaxPeers == 3
MaxBtcFuel == 6
Peers == 1..MaxPeers

\* servicebtc_new.  connection is the peer servicebtc->connection refers to
\* (0 is NULL); active tells whether the socket service accepts connections
\* and closed whether its listening sockets have been closed; open holds the
\* peers whose socket is open and reads those on whose stream a read is
\* pending; stopped counts the calls of the stop callback; oracle holds the
\* scripts the handshake state machine answers its next calls with.
servicebtc_new ==
    [stopping |-> FALSE, connection |-> 0, active |-> FALSE, closed |-> FALSE,
     open |-> {}, reads |-> {}, stopped |-> 0, oracle |-> <<>>]

\* servicebtc_stop_check, for a session that sends no beacons
servicebtc_stop_check(b) ==
    IF b.stopping /\ b.connection = 0
    THEN [b EXCEPT !.stopped = @ + 1, !.stopping = FALSE]
    ELSE b

RECURSIVE BtcFsmCall(_)

\* servicebtc_disconnect
servicebtc_disconnect(b) ==
    IF b.connection # 0
    THEN BtcFsmCall([b EXCEPT !.open = @ \ {b.connection}, !.connection = 0,
                              !.active = FALSE])
    ELSE b

\* servicebtc_stop: the connected device is disconnected
BtcStopDisconnect(b) ==
    IF b.connection # 0 THEN servicebtc_disconnect(b) ELSE b

\* servicebtc_stop
servicebtc_stop(b) ==
    IF b.stopping THEN b
    ELSE servicebtc_stop_check(
             BtcStopDisconnect(
                 [BtcFsmCall([b EXCEPT !.stopping = TRUE])
                    EXCEPT !.active = FALSE, !.closed = TRUE]))

\* the callbacks servicebtc_new hands to fsmservice_set_functions
BtcCallback(b, f) ==
    CASE f = "error" -> servicebtc_stop(b)
      [] f = "session_ended" -> servicebtc_stop(b)
      [] f = "listen" -> [b EXCEPT !.active = TRUE]
      [] f = "disconnect" -> servicebtc_disconnect(b)
      [] OTHER -> b

\* a call into the handshake state machine: it answers with the next
\* callback of the oracle
BtcFsmCall(b) ==
    IF b.oracle = <<>> THEN b
    ELSE BtcCallback([b EXCEPT !.oracle = Tail(@)], Head(b.oracle))

\* servicebtc_start: servicebtc_listen, then fsmservice_start
servicebtc_start(b) ==
    IF b.stopping THEN b
    ELSE BtcFsmCall([b EXCEPT !.active = TRUE])

\* servicebtc_incoming_connect
servicebtc_incoming_connect(b, connection) ==
    [BtcFsmCall([b EXCEPT !.connection = connection])
        EXCEPT !.reads = @ \cup {connection}]

\* servicebtc_read: count is what g_input_stream_read_finish returns
servicebtc_read(b, peer, count) ==
    IF count > 0
    THEN [BtcFsmCall([b EXCEPT !.reads = @ \ {peer}])
             EXCEPT !.reads = @ \cup {peer}]
    ELSE [b EXCEPT !.reads = @ \ {peer}]

BtcCallbacks == {"none", "write", "listen", "disconnect", "error", "session_ended"}
BtcOracles == { <<f>> : f \in BtcCallbacks } \cup { <<f, "none">> : f \in BtcCallbacks }

InitBtc ==
    /\ store = [started |-> FALSE, btc |-> servicebtc_new, next |-> 1]
    /\ calls = <<>>
    /\ sent = <<>>
    /\ locks = <<>>
    /\ daemon = "running"
    /\ nsess = 0
    /\ quota = [starts |-> 0, completes |-> 0, fuel |-> MaxBtcFuel, ops |-> 0,
                harvests |-> 0]

BtcFrame ==
    /\ quota.fuel > 0
    /\ quota' = [quota EXCEPT !.fuel = @ - 1]
    /\ UNCHANGED <<calls, sent, locks, daemon, nsess>>
BtcDone(b) == [b EXCEPT !.oracle = <<>>]

\* service_start on a ServiceBtc
BtcStart ==
    /\ ~store.started
    /\ \E oracle \in BtcOracles :
         store' = [store EXCEPT !.started = TRUE,
                     !.btc = BtcDone(servicebtc_start([@ EXCEPT !.oracle = oracle]))]
    /\ BtcFrame

\* a device connects to the channel while the socket service accepts
BtcIncomingConnect ==
    /\ store.started /\ store.btc.active /\ ~store.btc.closed
    /\ store.next \in Peers
    /\ \E oracle \in BtcOracles :
         store' = [store EXCEPT !.next = @ + 1,
                     !.btc = BtcDone(servicebtc_incoming_connect(
                                 [@ EXCEPT !.open = @ \cup {store.next},
                                           !.oracle = oracle], store.next))]
    /\ BtcFrame

\* a read on the stream of a peer completes: with data if its socket is
\* open, with nothing otherwise
BtcRead ==
    /\ \E peer \in store.btc.reads, oracle \in BtcOracles :
         \E count \in (IF peer \in store.btc.open THEN {0, 5} ELSE {0}) :
             store' = [store EXCEPT
                         !.btc = BtcDone(servicebtc_read(
                                     [@ EXCEPT !.oracle = oracle,
                                        !.open = IF count = 0 THEN @ \ {peer} ELSE @],
                                     peer, count))]
    /\ BtcFrame

\* service_stop on a ServiceBtc
BtcStop ==
    /\ store.started
    /\ \E oracle \in BtcOracles :
         store' = [store EXCEPT
                     !.btc = BtcDone(servicebtc_stop([@ EXCEPT !.oracle = oracle]))]
    /\ store' # store
    /\ BtcFrame

NextBtc == BtcStart \/ BtcIncomingConnect \/ BtcRead \/ BtcStop

SpecBtc == InitBtc /\ [][NextBtc]_vars

\* C32: while a peer is connected the channel's connection is not replaced
\* by a further incoming connection, and the socket of at most one peer is
\* open on the channel.
OnePeerAtATime ==
    [][ /\ store.btc.connection # 0
          => store'.btc.connection \in {store.btc.connection, 0}
        /\ Cardinality(store'.btc.open) <= 1 ]_vars

\* ------------------------------------------------------------------------
\* Bluetooth Low Energy service runs: the attribute channel of one session
\* ------------------------------------------------------------------------
SERVICESTATEBLE_INVALID == -1
SERVICESTATEBLE_DORMANT == 0
SERVICESTATEBLE_INITIALISING == 1
SERVICESTATEBLE_INITIALISED == 2
SERVICESTATEBLE_ADVERTISING == 3
SERVICESTATEBLE_ADVERTISINGCONTINUOUS == 4
SERVICESTATEBLE_CONNECTED == 5
SERVICESTATEBLE_UNADVERTISING == 6
SERVICESTATEBLE_UNADVERTISED == 7
SERVICESTATEBLE_FINALISING == 8
SERVICESTATEBLE_FINALISED == 9
MaxBleFuel == 10

\* serviceble_new.  connection, leadvertisingmanager and gattmanager tell
\* whether the pointer of that name is not NULL; exported whether the objects
\* of the attribute service exist and are visible to devices; timers holds
\* the pending recycle timers and cycletimeoutid the one the channel
\* remembers (0 is none); chains holds, for each initialisation in progress,
\* the callback it waits for (1 on_g_bus_get, 2
\* on_leadvertising_manager1_proxy_new, 3 on_gatt_manager1_proxy_new);
\* unregs and unadverts count the pending calls of
\* on_gatt_manager1_call_unregister_application and on_unregister_advert;
\* timeoutid tells whether the timer of the handshake state machine is
\* pending.  teardowns, inits, stopreqs and stopped count the calls of
\* serviceble_advertising_stop and serviceble_initialise, the stop requests
\* accepted and the calls of the stop callback; crashed tells that the
\* process has ended.
serviceble_new ==
    [state |-> SERVICESTATEBLE_INVALID, cycling |-> FALSE, finalise |-> FALSE,
     stopping |-> FALSE, connected |-> FALSE, connection |-> FALSE,
     leadvertisingmanager |-> FALSE, gattmanager |-> FALSE,
     exported |-> FALSE, timers |-> {}, cycletimeoutid |-> 0, nexttimer |-> 1,
     chains |-> <<>>, unregs |-> 0, unadverts |-> 0, timeoutid |-> FALSE,
     teardowns |-> 0, inits |-> 0, stopreqs |-> 0, stopped |-> 0,
     crashed |-> FALSE, oracle |-> <<>>]

\* serviceble_initialise: g_bus_get is started and a recycle timer added
serviceble_initialise(b) ==
    [b EXCEPT !.state = SERVICESTATEBLE_INITIALISING,
              !.chains = Append(@, 1),
              !.timers = @ \cup {b.nexttimer},
              !.cycletimeoutid = b.nexttimer,
              !.nexttimer = @ + 1,
              !.inits = @ + 1]

\* serviceble_advertising_start
serviceble_advertising_start(b, continuous) ==
    [b EXCEPT !.state = IF continuous
                        THEN SERVICESTATEBLE_ADVERTISINGCONTINUOUS
                        ELSE SERVICESTATEBLE_ADVERTISING,
              !.exported = b.gattmanager /\ b.connection]

\* serviceble_advertising_stop: the call on a NULL gattmanager is refused,
\* so that no callback follows
serviceble_advertising_stop(b, finalise) ==
    [b EXCEPT !.state = SERVICESTATEBLE_UNADVERTISING,
              !.finalise = finalise,
              !.teardowns = @ + 1,
              !.unregs = IF b.gattmanager THEN @ + 1 ELSE @]

\* serviceble_finalise: what follows the release of the stack
FinaliseEnd(b) ==
    IF b.cycling
    THEN serviceble_initialise([b EXCEPT !.cycling = FALSE])
    ELSE [b EXCEPT !.stopped = @ + 1, !.stopping = FALSE]

\* serviceble_finalise
serviceble_finalise(b) ==
    FinaliseEnd([b EXCEPT !.state = SERVICESTATEBLE_FINALISED,
                          !.connection = FALSE,
                          !.leadvertisingmanager = FALSE,
                          !.gattmanager = FALSE,
                          !.timers = @ \ {b.cycletimeoutid},
                          !.cycletimeoutid = 0])

\* serviceble_recycle
serviceble_recycle(b) ==
    IF ~b.stopping THEN serviceble_advertising_stop(b, TRUE) ELSE b

RECURSIVE BleFsmCall(_)

\* serviceble_stop
serviceble_stop(b) ==
    IF ~b.stopping
    THEN serviceble_advertising_stop(
             BleFsmCall([b EXCEPT !.stopping = TRUE, !.stopreqs = @ + 1]), TRUE)
    ELSE b

\* the callbacks serviceble_new hands to fsmservice_set_functions
BleCallback(b, f) ==
    CASE f = "session_ended" -> serviceble_stop(b)
      [] f = "listen" ->
           IF ~b.connected THEN serviceble_advertising_start(b, TRUE) ELSE b
      [] f = "disconnect" ->
           IF b.connected THEN serviceble_advertising_stop(b, FALSE) ELSE b
      [] f = "set_timeout" -> [b EXCEPT !.timeoutid = TRUE]
      [] OTHER -> b

\* a call into the handshake state machine: it answers with the next
\* callback of the oracle
BleFsmCall(b) ==
    IF b.oracle = <<>> THEN b
    ELSE BleCallback([b EXCEPT !.oracle = Tail(@)], Head(b.oracle))

\* serviceble_start
serviceble_start(b) ==
    IF ~b.stopping THEN BleFsmCall(serviceble_initialise(b)) ELSE b

\* on_cycle_timeout: the switch on the state of the channel
CycleSwitch_connected(b) ==
    IF b.state \in {SERVICESTATEBLE_ADVERTISING, SERVICESTATEBLE_INITIALISED,
                    SERVICESTATEBLE_UNADVERTISED, SERVICESTATEBLE_CONNECTED}
    THEN [b EXCEPT !.cycling = TRUE]
    ELSE b
CycleSwitch(b) ==
    IF b.state \in {SERVICESTATEBLE_ADVERTISING, SERVICESTATEBLE_INITIALISED,
                    SERVICESTATEBLE_UNADVERTISED}
    THEN [b EXCEPT !.cycling = TRUE]
    ELSE b

\* on_cycle_timeout: the timer that returns FALSE is forgotten and removed
CycleOnce(b, id) ==
    [b EXCEPT !.cycletimeoutid = 0, !.timers = @ \ {id}]

\* on_cycle_timeout, for the recycle timer id
CycleEnd(b, id, state) ==
    IF b.cycling THEN CycleOnce(serviceble_recycle(b), id)
    ELSE IF state = SERVICESTATEBLE_FINALISED THEN CycleOnce(b, id)
    ELSE b
on_cycle_timeout(b, id) == CycleEnd(CycleSwitch(b), id, b.state)

\* on_g_bus_get, on_leadvertising_manager1_proxy_new and
\* on_gatt_manager1_proxy_new, for the first initialisation in progress: ok
\* tells whether the operation gave an object; a proxy for a NULL connection
\* is refused, so that no callback follows
BleInitialised(b, stage, ok) ==
    CASE ~ok -> b
      [] stage = 1 ->
           [b EXCEPT !.connection = TRUE, !.chains = Append(@, 2)]
      [] stage = 2 ->
           [b EXCEPT !.leadvertisingmanager = TRUE,
                     !.chains = IF b.connection THEN Append(@, 3) ELSE @]
      [] OTHER ->
           serviceble_advertising_start(
               [b EXCEPT !.gattmanager = TRUE,
                         !.state = SERVICESTATEBLE_INITIALISED], FALSE)

\* on_unregister_advert
on_unregister_advert(b) ==
    IF b.finalise THEN serviceble_finalise(b) ELSE b
UnregisterAdvertDisconnected(b) ==
    IF b.connected THEN BleFsmCall([b EXCEPT !.connected = FALSE]) ELSE b

\* on_gatt_manager1_call_unregister_application: the objects of the service
\* are released; releasing them a second time is undefined, and ub tells
\* whether the process survives it
on_gatt_manager1_call_unregister_application(b, ub) ==
    [b EXCEPT !.unregs = @ - 1,
              !.crashed = ~b.exported /\ ub,
              !.exported = FALSE,
              !.unadverts = IF b.leadvertisingmanager THEN @ + 1 ELSE @]

\* on_handle_write_value: complete tells whether the message is whole
WriteConnected(b) ==
    IF ~b.connected
    THEN BleFsmCall([b EXCEPT !.connected = TRUE,
                              !.state = SERVICESTATEBLE_CONNECTED])
    ELSE b
on_handle_write_value(b, complete) ==
    IF complete THEN BleFsmCall(WriteConnected(b)) ELSE WriteConnected(b)

BleCallbacks == {"none", "write", "listen", "disconnect", "session_ended", "set_timeout"}
BleOracles == { <<f>> : f \in BleCallbacks } \cup { <<"none", f>> : f \in BleCallbacks }

InitBle ==
    /\ store = [started |-> FALSE, ble |-> serviceble_new]
    /\ calls = <<>>
    /\ sent = <<>>
    /\ locks = <<>>
    /\ daemon = "running"
    /\ nsess = 0
    /\ quota = [starts |-> 0, completes |-> 0, fuel |-> MaxBleFuel, ops |-> 0,
                harvests |-> 0]

BleFrame ==
    /\ quota.fuel > 0
    /\ ~store.ble.crashed
    /\ quota' = [quota EXCEPT !.fuel = @ - 1]
    /\ UNCHANGED <<calls, sent, locks, daemon, nsess>>
BleDone(b) == [b EXCEPT !.oracle = <<>>]

\* service_start on a ServiceBle
BleStart ==
    /\ ~store.started
    /\ \E oracle \in BleOracles :
         store' = [store EXCEPT !.started = TRUE,
                     !.ble = BleDone(serviceble_start([@ EXCEPT !.oracle = oracle]))]
    /\ BleFrame

\* the operation the first initialisation in progress waits for completes
BleInitStep ==
    /\ store.ble.chains # <<>>
    /\ \E ok \in BOOLEAN :
         store' = [store EXCEPT
                     !.ble = BleInitialised([@ EXCEPT !.chains = Tail(@)],
                                            Head(store.ble.chains), ok)]
    /\ BleFrame

\* a recycle timer fires
BleCycleTimeout ==
    /\ \E id \in store.ble.timers :
         store' = [store EXCEPT !.ble = on_cycle_timeout(@, id)]
    /\ BleFrame

\* the attribute service has been unregistered
BleUnregisterApplication ==
    /\ store.ble.unregs > 0
    /\ \E ub \in BOOLEAN :
         store' = [store EXCEPT
                     !.ble = on_gatt_manager1_call_unregister_application(@, ub)]
    /\ BleFrame

\* the advertisement has been unregistered
BleUnregisterAdvert ==
    /\ store.ble.unadverts > 0
    /\ \E oracle \in BleOracles :
         store' = [store EXCEPT
                     !.ble = BleDone(on_unregister_advert(
                                 UnregisterAdvertDisconnected(
                                     [@ EXCEPT !.unadverts = @ - 1,
                                        !.state = SERVICESTATEBLE_UNADVERTISED,
                                        !.oracle = oracle])))]
    /\ BleFrame

\* a device writes to the incoming characteristic
BleWriteValue ==
    /\ store.ble.exported
    /\ \E oracle \in BleOracles, complete \in BOOLEAN :
         store' = [store EXCEPT
                     !.ble = BleDone(on_handle_write_value(
                                 [@ EXCEPT !.oracle = oracle], complete))]
    /\ BleFrame

\* serviceble_timeout: the timer of the handshake state machine fires
BleTimeout ==
    /\ store.ble.timeoutid
    /\ \E oracle \in BleOracles :
         store' = [store EXCEPT
                     !.ble = BleDone(BleFsmCall(
                                 [@ EXCEPT !.timeoutid = FALSE, !.oracle = oracle]))]
    /\ BleFrame

\* service_stop on a ServiceBle
BleStop ==
    /\ store.started
    /\ store.ble.stopreqs = 0
    /\ \E oracle \in BleOracles :
         store' = [store EXCEPT
                     !.ble = BleDone(serviceble_stop([@ EXCEPT !.oracle = oracle]))]
    /\ BleFrame

NextBle ==
    \/ BleStart
    \/ BleInitStep
    \/ BleCycleTimeout
    \/ BleUnregisterApplication
    \/ BleUnregisterAdvert
    \/ BleWriteValue
    \/ BleTimeout
    \/ BleStop

SpecBle == InitBle /\ [][NextBle]_vars

\* the recycle timer id fires
CycleStep(id) ==
    /\ id \in store.ble.timers
    /\ quota'.fuel < quota.fuel
    /\ store'.ble = on_cycle_timeout(store.ble, id)

\* C33: when a recycle timer fires, a teardown is started only in
\* Initialised, Advertising or Unadvertised; in Initialising, Unadvertising,
\* Finalising, Connected or AdvertisingContinuous no teardown is started and
\* the timer stays pending for a later tick.
RecycleOnlyWhenIdle ==
    [][ \A id \in store.ble.timers :
          CycleStep(id) =>
            /\ store'.ble.teardowns > store.ble.teardowns
                 => store.ble.state \in {SERVICESTATEBLE_INITIALISED,
                                         SERVICESTATEBLE_ADVERTISING,
                                         SERVICESTATEBLE_UNADVERTISED}
            /\ store.ble.state \in {SERVICESTATEBLE_INITIALISING,
                                    SERVICESTATEBLE_UNADVERTISING,
                                    SERVICESTATEBLE_FINALISING,
                                    SERVICESTATEBLE_CONNECTED,
                                    SERVICESTATEBLE_ADVERTISINGCONTINUOUS}
                 => /\ store'.ble.teardowns = store.ble.teardowns
                    /\ id \in store'.ble.timers ]_vars

\* a recycle timer has started the teardown of an advertising channel
RecycleStarted ==
    /\ store.ble.cycling
    /\ store.ble.state = SERVICESTATEBLE_UNADVERTISING
    /\ store.ble.unregs > 0
    /\ store.ble.stopreqs = 0

\* C39: once a stop of the attribute channel has been requested, the
\* teardown that ends in serviceble_finalise is in flight until the stop
\* callback has run (serviceble_finalise is reached only from
\* on_unregister_advert, and while the channel is stopping no further
\* finalising teardown can be started), the stack is not initialised again,
\* and the stop callback runs no more often than stops were requested.
StopFinalisesOnce ==
    [][ /\ store'.ble.stopping
             => store'.ble.unregs + store'.ble.unadverts > 0
        /\ store.ble.stopreqs > 0 => store'.ble.inits = store.ble.inits
        /\ store'.ble.stopped <= store'.ble.stopreqs ]_vars

\* C34: the pending-reply slot of a session never holds a request that has
\* been answered (so that after the StartAuth reply it is empty until a
\* CompleteAuth call is stored in it, and an update or a stop before that
\* call emits nothing), and no request is answered twice.
PendingSlotUnanswered ==
    /\ \A h \in Handles :
         Present(store, h) /\ store.items[h].auththread.inv # 0
           => ~Replied(sent, store.items[h].auththread.inv)
    /\ \A i, j \in 1..Len(sent) : sent[i].inv = sent[j].inv => i = j

\* C35: a CompleteAuth(h) call that finds a session is bound to the session
\* of every StartAuth that returned h before it (the caller of any of them
\* may be the one that calls): it is never bound to a newer session that
\* has taken the slot of a harvested one.
CompleteBindsOwnSession ==
    \A i, j \in 1..Len(calls) :
        /\ i < j
        /\ calls[i].kind = "start" /\ calls[j].kind = "complete"
        /\ calls[i].handle >= 0 /\ calls[i].handle = calls[j].handle
        /\ calls[j].sid # 0
        => calls[j].sid = calls[i].sid

\* C36: every session that occupies a slot of the registry is Harvestable
\* or can still become so: the state Harvestable is assigned only by the
\* stop callback of the session's service, so a session in a slot has a
\* service unless it is Harvestable already.
SlotsBecomeHarvestable ==
    \A h \in Handles :
        Present(store, h)
          => \/ store.items[h].auththread.state = AUTHTHREADSTATE_HARVESTABLE
             \/ store.items[h].auththread.service

\* the session sid has authenticated successfully: its token is stored by
\* the AUTHENTICATED update and by nothing else
HasAuthenticated(S, sid) ==
    \E h \in Handles :
        /\ Present(S, h)
        /\ S.items[h].auththread.sid = sid
        /\ S.items[h].auththread.password = "token"

\* C37: the lock command is run only for sessions that have authenticated
\* successfully.
LockOnlyAfterSuccess ==
    [][ daemon' = "running"
          => \A k \in (Len(locks) + 1)..Len(locks') :
                 HasAuthenticated(store', locks'[k]) ]_vars

\* C38: the channel of a Harvestable session is quiescent: no message is in
\* flight, and no retry timer, wall clock timer or time limit of the session
\* is pending.
HarvestableIsQuiescent ==
    \A h \in Handles :
        /\ Present(store, h)
        /\ store.items[h].auththread.state = AUTHTHREADSTATE_HARVESTABLE
        => /\ store.items[h].auththread.svc.inflight = <<>>
           /\ store.items[h].auththread.svc.retries = <<>>
           /\ ~store.items[h].auththread.svc.wallclocktimerid
           /\ ~store.items[h].auththread.timeoutid

\* the lowest free slot of the registry, MAX_SIMULTANEOUS_AUTHS if none is
LowestFree(S) ==
    IF \A h \in Handles : S.items[h].present THEN MAX_SIMULTANEOUS_AUTHS
    ELSE CHOOSE h \in Handles :
             /\ ~S.items[h].present
             /\ \A g \in Handles : g < h => S.items[g].present

\* C40: after every processstore_add and processstore_remove nextAvailable
\* is the lowest free slot, or MAX_SIMULTANEOUS_AUTHS if no slot is free.
CursorIsLowestFree == store.nextAvailable = LowestFree(store)

\* a slot below an occupied one has been freed and the cursor is back on it
CursorOnHole ==
    \E h \in Handles :
        /\ Present(store, h)
        /\ store.nextAvailable < h

====
